---- MODULE Spec2Model ----
(***************************************************************************)
(* AutoBilling: the exploration-and-extraction decision engine.            *)
(*                                                                         *)
(*   - BillInfo, has_meaningful_billing_data, deduplicate_transactions     *)
(*     (utils/utils.py)                                                    *)
(*   - the extraction strategies and SmartExtractionOrchestrator           *)
(*     (utils/extraction_strategies.py)            -> SpecExtract          *)
(*   - NavigationAgent.explore_for_billing_data and its helpers            *)
(*     (agents/navigation_agent.py, agents/billing_evaluator.py,           *)
(*      agents/exploration_strategist.py)          -> Spec                 *)
(*                                                                         *)
(* Amounts are integers in cents (120.00 is 12000).  Dates are records    *)
(* [y, m, d]; the code's datetime values carry no time of day on the       *)
(* paths modelled.                                                         *)
(***************************************************************************)
EXTENDS Integers, Sequences, FiniteSets, TLC

(***************************************************************************)
(* Program constants (utils/config.py).                                    *)
(***************************************************************************)
MIN_UTILITY_AMOUNT == 100
MAX_UTILITY_AMOUNT == 500000
MAX_YEARS_BACK == 15
MAX_YEARS_FORWARD == 2
MAX_EXPLORATION_TIME == 180
EXPLORATION_THRESHOLD == 70
MAX_TOTAL_TRANSACTIONS == 50

(***************************************************************************)
(* Bounds of the model.                                                    *)
(***************************************************************************)
MaxTx == 3        \* most rows of the transaction containers of a page
MaxItems == 2     \* most items of an API answer, bills of an oracle answer, dashboard matches
MaxElements == 1  \* most clickable elements found on the entry page
MaxOracleLinks == 1  \* longest list of links in an oracle answer
MaxVisits == 2       \* most driver.get calls of a run before its time is up

(***************************************************************************)
(* Small helpers.                                                          *)
(***************************************************************************)
Range(s) == {s[i] : i \in 1..Len(s)}

Min2(a, b) == IF a <= b THEN a ELSE b

Abs(n) == IF n < 0 THEN -n ELSE n

Take(s, n) == SubSeq(s, 1, Min2(n, Len(s)))

SeqsUpTo(S, n) == UNION {[1..k -> S] : k \in 0..n}

\* The subsequence of s at the indices in I, in order.
RECURSIVE PickFrom(_, _, _)
PickFrom(s, I, i) ==
    IF i > Len(s) THEN <<>>
    ELSE (IF i \in I THEN <<s[i]>> ELSE <<>>) \o PickFrom(s, I, i + 1)

Pick(s, I) == PickFrom(s, I, 1)

(***************************************************************************)
(* Dates.                                                                  *)
(***************************************************************************)
Date(y, m, d) == [y |-> y, m |-> m, d |-> d]

DateOrd(dt) == dt.y * 10000 + dt.m * 100 + dt.d

Pad2(n) == IF n < 10 THEN "0" \o ToString(n) ELSE ToString(n)

\* strftime('%m/%d/%Y')
FormatMDY(dt) == Pad2(dt.m) \o "/" \o Pad2(dt.d) \o "/" \o ToString(dt.y)

\* strftime('%m-%d')
MonthDay(dt) == Pad2(dt.m) \o "-" \o Pad2(dt.d)

\* f"{date_obj.year}-{date_obj.month:02d}"
MonthKey(dt) == ToString(dt.y) \o "-" \o Pad2(dt.m)

(***************************************************************************)
(* BillInfo (utils/utils.py).  all_bills = <<>> stands for both None and   *)
(* the empty list: the code only ever tests its truthiness and length.     *)
(***************************************************************************)
BillInfo(pm, pa, cm, ca) ==
    [previous_month |-> pm, previous_amount |-> pa,
     current_month |-> cm, current_amount |-> ca, all_bills |-> <<>>]

\* Python's None where a BillInfo is expected.
None == [none |-> TRUE]

EmptyIndicators ==
    {"No data found", "Error", "Screenshot failed", "Vision AI found no data",
     "No driver", "API extraction needs driver", "No APIs found",
     "No API endpoints detected", "HTML extraction failed", "Vision extraction failed",
     "No billing data found", "Exploration complete"}

\* The amounts tested without the look at current_month.
has_meaningful_ignoring_indicators(b) ==
    IF b = None THEN FALSE
    ELSE IF b.all_bills # <<>> THEN TRUE
    ELSE b.current_amount > 0 \/ b.previous_amount > 0

has_meaningful_billing_data(b) ==
    IF b = None THEN FALSE                      \* AttributeError -> except -> False
    ELSE IF b.all_bills # <<>> THEN Len(b.all_bills) > 0
    ELSE IF b.current_month \in EmptyIndicators THEN FALSE
    ELSE b.current_amount > 0 \/ b.previous_amount > 0

(***************************************************************************)
(* list.sort(key=lambda x: x['date'], reverse=True): stable, newest first. *)
(***************************************************************************)
InsertByDateDesc(acc, x) ==
    LET k == Cardinality({i \in 1..Len(acc) : DateOrd(acc[i].date) >= DateOrd(x.date)})
    IN  SubSeq(acc, 1, k) \o <<x>> \o SubSeq(acc, k + 1, Len(acc))

RECURSIVE SortByDateDesc(_)
SortByDateDesc(s) ==
    IF s = <<>> THEN <<>>
    ELSE InsertByDateDesc(SortByDateDesc(SubSeq(s, 1, Len(s) - 1)), s[Len(s)])

(***************************************************************************)
(* deduplicate_transactions (utils/utils.py).  unique_data is a dict in    *)
(* insertion order: a sequence with one item per key, replaced in place.   *)
(***************************************************************************)
DedupKey(item) == <<MonthDay(item.date), item.amount, item.type>>

\* The comparison of the year distances turned around.
DedupPrefersFarther(item, existing, current_year) ==
    \/ Abs(item.date.y - current_year) > Abs(existing.date.y - current_year)
    \/ /\ Abs(item.date.y - current_year) = Abs(existing.date.y - current_year)
       /\ Len(item.description) > Len(existing.description)

\* The branch that replaces the stored item by the new one.
DedupPrefers(item, existing, current_year) ==
    \/ Abs(item.date.y - current_year) < Abs(existing.date.y - current_year)
    \/ /\ Abs(item.date.y - current_year) = Abs(existing.date.y - current_year)
       /\ Len(item.description) > Len(existing.description)

DedupStep(unique_data, item, current_year) ==
    LET hits == {i \in 1..Len(unique_data) : DedupKey(unique_data[i]) = DedupKey(item)}
    IN  IF hits = {} THEN Append(unique_data, item)
        ELSE LET i == CHOOSE h \in hits : TRUE
             IN  IF DedupPrefers(item, unique_data[i], current_year)
                 THEN [unique_data EXCEPT ![i] = item]
                 ELSE unique_data

RECURSIVE deduplicate_transactions(_, _)
deduplicate_transactions(transactions, current_year) ==
    IF transactions = <<>> THEN <<>>
    ELSE DedupStep(deduplicate_transactions(SubSeq(transactions, 1, Len(transactions) - 1),
                                            current_year),
                   transactions[Len(transactions)], current_year)

(***************************************************************************)
(* HTMLExtractionStrategy._create_bill_info: latest entry per month.       *)
(***************************************************************************)
\* The month's entry overwritten by every later one of the sorted list.
KeepLastOfMonth(sorted, i) ==
    \A j \in (i + 1)..Len(sorted) : MonthKey(sorted[j].date) # MonthKey(sorted[i].date)

\* "if month_key not in monthly_latest: monthly_latest[month_key] = transaction"
KeepFirstOfMonth(sorted, i) ==
    \A j \in 1..(i - 1) : MonthKey(sorted[j].date) # MonthKey(sorted[i].date)

MonthlyLatest(sorted) ==
    Pick(sorted, {i \in 1..Len(sorted) : KeepFirstOfMonth(sorted, i)})

_create_bill_info(transactions) ==
    IF transactions = <<>>
    THEN BillInfo("No transactions", 0, "No valid transactions", 0)
    ELSE LET sorted == SortByDateDesc(transactions)
             filtered_bills == SortByDateDesc(MonthlyLatest(sorted))
             only_bills == Pick(filtered_bills,
                                {i \in 1..Len(filtered_bills) : filtered_bills[i].type = "bill"})
             bills == IF only_bills = <<>> THEN filtered_bills ELSE only_bills
         IN  [previous_month |-> IF Len(bills) > 1
                                 THEN "Previous (" \o FormatMDY(bills[2].date) \o ")"
                                 ELSE "No previous",
              previous_amount |-> IF Len(bills) > 1 THEN bills[2].amount ELSE 0,
              current_month |-> "Current (" \o FormatMDY(bills[1].date) \o ")",
              current_amount |-> bills[1].amount,
              all_bills |-> filtered_bills]

(***************************************************************************)
(* extract_dates_and_amounts (utils/utils.py) on one row.  A row is what   *)
(* the DATE_PATTERNS / AMOUNT_PATTERNS matches of its text are:            *)
(*   dates   - the matched date strings, parsed (BadDate: no format fits)  *)
(*   amounts - the matched amounts in cents, before the range check        *)
(* "07/01/2024" is matched by MM/DD/YYYY and, as "07/01/20", by MM/DD/YY,  *)
(* so such a row carries both 2024-07-01 and 2020-07-01.                   *)
(***************************************************************************)
BadDate == [bad |-> TRUE]

is_valid_utility_date(dt, current_year) ==
    (current_year - MAX_YEARS_BACK) <= dt.y /\ dt.y <= (current_year + MAX_YEARS_FORWARD)

AmountInRange(amount) == MIN_UTILITY_AMOUNT <= amount /\ amount <= MAX_UTILITY_AMOUNT

\* for date_str in dates_found: for amount in amounts_found: ...
RECURSIVE CrossDatesAmounts(_, _, _, _)
CrossDatesAmounts(dates, amounts, i, j) ==
    IF i > Len(dates) THEN <<>>
    ELSE IF j > Len(amounts) THEN CrossDatesAmounts(dates, amounts, i + 1, 1)
    ELSE <<[date |-> dates[i], amount |-> amounts[j]]>>
         \o CrossDatesAmounts(dates, amounts, i, j + 1)

extract_dates_and_amounts(row, current_year) ==
    LET amounts_found == Pick(row.amounts,
                              {j \in 1..Len(row.amounts) : AmountInRange(row.amounts[j])})
        dates_ok == Pick(row.dates,
                         {i \in 1..Len(row.dates) :
                            /\ row.dates[i] # BadDate
                            /\ is_valid_utility_date(row.dates[i], current_year)})
    IN  CrossDatesAmounts(dates_ok, amounts_found, 1, 1)

\* any(word in row_text.lower() for word in ['payment', 'paid', 'credit'])
PaymentTexts == {"2024-06-20 Payment received $115.00"}

RowType(row) == IF row.text \in PaymentTexts THEN "payment" ELSE "bill"

RowTransactions(row, current_year) ==
    LET found == extract_dates_and_amounts(row, current_year)
    IN  [k \in 1..Len(found) |->
           [date |-> found[k].date, amount |-> found[k].amount,
            type |-> RowType(row), description |-> row.text]]

\* HTMLExtractionStrategy._extract_historical_transactions, before the
\* final deduplicate_transactions, on a page with one transaction container:
\* its rows in order, the row loop left once MAX_TOTAL_TRANSACTIONS entries
\* are collected.
RECURSIVE CollectRows(_, _, _)
CollectRows(rows, acc, current_year) ==
    IF rows = <<>> THEN acc
    ELSE LET acc2 == acc \o RowTransactions(Head(rows), current_year)
         IN  IF Len(acc2) >= MAX_TOTAL_TRANSACTIONS THEN acc2
             ELSE CollectRows(Tail(rows), acc2, current_year)

_extract_historical_transactions(rows, current_year) ==
    deduplicate_transactions(CollectRows(rows, <<>>, current_year), current_year)

(***************************************************************************)
(* APIExtractionStrategy._parse_api_response.  An item is the outcome of   *)
(* reading its date field with '%Y-%m-%d' (BadDate: missing or no parse)   *)
(* and its amount field with float().                                      *)
(***************************************************************************)
\* An amount the code could not read as a number has amount_ok = FALSE.
ApiBill(item) ==
    [date |-> item.date, amount |-> item.amount, type |-> "bill",
     description |-> "API Bill - " \o item.description]

\* "if bill_date and bill_amount": 0.0 is falsy, nothing else is tested.
ApiItemAccepted(item) ==
    item.date # BadDate /\ item.amount_ok /\ item.amount # 0

ApiBills(items) ==
    LET kept == Pick(items, {i \in 1..Len(items) : ApiItemAccepted(items[i])})
    IN  [k \in 1..Len(kept) |-> ApiBill(kept[k])]

_parse_api_response(items) ==
    IF ApiBills(items) # <<>> THEN _create_bill_info(ApiBills(items))
    ELSE BillInfo("No API data", 0, "No parseable API data", 0)

\* APIExtractionStrategy.extract: api is [endpoints, answered, items].
ApiExtract(api, has_driver) ==
    IF ~has_driver THEN BillInfo("No driver", 0, "API extraction needs driver", 0)
    ELSE IF ~api.endpoints THEN BillInfo("No APIs found", 0, "No API endpoints detected", 0)
    ELSE IF api.answered THEN _parse_api_response(api.items)
    ELSE BillInfo("API calls failed", 0, "No working API endpoints", 0)

(***************************************************************************)
(* HTMLExtractionStrategy._try_ai_html_extraction.  The oracle's answer is *)
(* [ok, bills]; ok = FALSE is a call that raised or gave no JSON.  A bill  *)
(* whose date does not parse ('%m/%d/%Y') or whose amount is no float is   *)
(* skipped; nothing else is tested.                                        *)
(***************************************************************************)
AiBillAccepted(bill) == bill.date # BadDate /\ bill.amount_ok

AiTransactions(bills) ==
    LET kept == Pick(bills, {i \in 1..Len(bills) : AiBillAccepted(bills[i])})
    IN  [k \in 1..Len(kept) |->
           [date |-> kept[k].date, amount |-> kept[k].amount, type |-> "bill",
            description |-> kept[k].description]]

_try_ai_html_extraction(answer) ==
    IF ~answer.ok \/ answer.bills = <<>> THEN None
    ELSE IF AiTransactions(answer.bills) # <<>>
         THEN _create_bill_info(AiTransactions(answer.bills))
         ELSE None

(***************************************************************************)
(* HTMLExtractionStrategy._extract_dashboard_amounts.  dash is the list of *)
(* dashboard_patterns matches in the order found: [amount, date, type],    *)
(* date = BadDate when no date stands in the 100 characters around it.     *)
(***************************************************************************)
DashPriority(type) ==
    CASE type = "current_bill" -> 1
      [] type = "amount_due" -> 2
      [] type = "balance" -> 3
      [] type = "bill_amount" -> 4
      [] type = "last_payment" -> 5
      [] type = "payment_amount" -> 6
      [] type = "paid_amount" -> 7
      [] type = "dollar_amount" -> 8
      [] OTHER -> 9

\* "if amount > 0 and amount < 10000", then the date or, for the current
\* bill figures, datetime.now().
DashAmountDate(match, today) ==
    IF match.date # BadDate THEN match.date
    ELSE IF match.type \in {"current_bill", "amount_due", "balance"} THEN today
    ELSE BadDate

DashAccepted(match, today) ==
    /\ match.amount > 0 /\ match.amount < 1000000
    /\ DashAmountDate(match, today) # BadDate

DashAmounts(dash, today) ==
    LET kept == Pick(dash, {i \in 1..Len(dash) : DashAccepted(dash[i], today)})
    IN  [k \in 1..Len(kept) |->
           [amount |-> kept[k].amount, date |-> DashAmountDate(kept[k], today),
            type |-> kept[k].type]]

DashEntry(a) ==
    [date |-> a.date, amount |-> a.amount, type |-> "bill",
     description |-> "Dashboard " \o a.type, amount_type |-> a.type]

DashStep(monthly_latest, a) ==
    LET hits == {i \in 1..Len(monthly_latest) :
                   MonthKey(monthly_latest[i].date) = MonthKey(a.date)}
    IN  IF hits = {} THEN Append(monthly_latest, DashEntry(a))
        ELSE LET i == CHOOSE h \in hits : TRUE
                 old == monthly_latest[i]
             IN  IF \/ DashPriority(a.type) < DashPriority(old.amount_type)
                    \/ /\ DashPriority(a.type) = DashPriority(old.amount_type)
                       /\ a.amount > old.amount
                 THEN [monthly_latest EXCEPT ![i] = DashEntry(a)]
                 ELSE monthly_latest

RECURSIVE DashMonthly(_)
DashMonthly(amounts) ==
    IF amounts = <<>> THEN <<>>
    ELSE DashStep(DashMonthly(SubSeq(amounts, 1, Len(amounts) - 1)), amounts[Len(amounts)])

\* bill.pop('amount_type', None)
DashBill(e) ==
    [date |-> e.date, amount |-> e.amount, type |-> e.type, description |-> e.description]

\* The "original fallback logic": the largest matched amount in 10..5000.
RECURSIVE DashFallbackAmount(_)
DashFallbackAmount(dash) ==
    IF dash = <<>> THEN 0
    ELSE LET rest == DashFallbackAmount(Tail(dash))
             a == Head(dash).amount
         IN  IF 1000 <= a /\ a <= 500000 /\ a > rest THEN a ELSE rest

_extract_dashboard_amounts(dash, today) ==
    LET amounts == SortByDateDesc(DashAmounts(dash, today))
        latest == DashMonthly(amounts)
        filtered_bills == SortByDateDesc([k \in 1..Len(latest) |-> DashBill(latest[k])])
    IN  IF amounts # <<>>
        THEN [previous_month |-> IF Len(filtered_bills) > 1
                                 THEN "Previous (" \o FormatMDY(filtered_bills[2].date) \o ")"
                                 ELSE "No previous",
              previous_amount |-> IF Len(filtered_bills) > 1
                                  THEN filtered_bills[2].amount ELSE 0,
              current_month |-> "Current (" \o FormatMDY(filtered_bills[1].date) \o ")",
              current_amount |-> filtered_bills[1].amount,
              all_bills |-> filtered_bills]
        ELSE IF DashFallbackAmount(dash) > 0
        THEN BillInfo("No previous data", 0, "Current Bill", DashFallbackAmount(dash))
        ELSE BillInfo("No HTML data found", 0, "No extractable amounts", 0)

(***************************************************************************)
(* HTMLExtractionStrategy.extract on a page [rows, ai, dash].  The result  *)
(* comes with the path taken and, for the table path, the list before and  *)
(* after deduplicate_transactions.                                         *)
(***************************************************************************)
HtmlExtract(html, current_year, today) ==
    LET raw == CollectRows(html.rows, <<>>, current_year)
        historical_data == _extract_historical_transactions(html.rows, current_year)
        ai_result == _try_ai_html_extraction(html.ai)
        dash_result == _extract_dashboard_amounts(html.dash, today)
    IN  IF historical_data # <<>>
        THEN [result |-> _create_bill_info(historical_data), path |-> "table",
              raw |-> raw, deduped |-> historical_data, given |-> historical_data]
        ELSE IF ai_result # None /\ ai_result.all_bills # <<>>
        THEN [result |-> ai_result, path |-> "ai_html",
              raw |-> raw, deduped |-> <<>>, given |-> AiTransactions(html.ai.bills)]
        ELSE [result |-> dash_result, path |-> "dashboard",
              raw |-> raw, deduped |-> <<>>, given |-> <<>>]

(***************************************************************************)
(* VisionAIExtractionStrategy.  vision is [shot, ok, bills]: shot = FALSE  *)
(* is a failed screenshot, ok = FALSE a call that raised or gave no JSON.  *)
(***************************************************************************)
VisionBillAccepted(bill) == bill.date # BadDate /\ bill.amount_ok

_create_bill_info_from_vision(bills) ==
    LET kept == Pick(bills, {i \in 1..Len(bills) : VisionBillAccepted(bills[i])})
        processed_bills ==
            SortByDateDesc([k \in 1..Len(kept) |->
                              [date |-> kept[k].date, amount |-> kept[k].amount,
                               type |-> kept[k].type, description |-> kept[k].description]])
    IN  IF bills = <<>> THEN BillInfo("No vision data", 0, "Vision AI found no bills", 0)
        ELSE IF processed_bills = <<>>
        THEN BillInfo("No valid vision data", 0, "Could not parse vision data", 0)
        ELSE [previous_month |-> IF Len(processed_bills) > 1
                                 THEN "Previous (" \o FormatMDY(processed_bills[2].date) \o ")"
                                 ELSE "No previous",
              previous_amount |-> IF Len(processed_bills) > 1
                                  THEN processed_bills[2].amount ELSE 0,
              current_month |-> "Current (" \o FormatMDY(processed_bills[1].date) \o ")",
              current_amount |-> processed_bills[1].amount,
              all_bills |-> processed_bills]

VisionExtract(vision, has_driver) ==
    IF ~has_driver THEN BillInfo("No driver", 0, "Vision AI needs driver", 0)
    ELSE IF ~vision.shot THEN BillInfo("Screenshot failed", 0, "screenshot error", 0)
    ELSE IF vision.ok THEN _create_bill_info_from_vision(vision.bills)
    ELSE BillInfo("Vision AI failed", 0, "Could not analyze screenshot", 0)

(***************************************************************************)
(* SmartExtractionOrchestrator.extract_billing_data.                        *)
(***************************************************************************)
\* The tail of extract_billing_data once no strategy's result was meaningful
\* ("Return best available result").
\* The tail handing back the HTML strategy's result whatever it is.
OrchestratorFallbackUnchecked(html, api) == html

OrchestratorFallback(html, api) ==
    IF has_meaningful_billing_data(html) THEN html
    ELSE IF has_meaningful_billing_data(api) THEN api
    ELSE BillInfo("All extractions failed", 0, "No viable extraction method", 0)

(***************************************************************************)
(* The inputs the extraction strategies are run on.                        *)
(***************************************************************************)
NowYears == {2024, 2025}

\* datetime.now() of the run.
Today(current_year) == Date(current_year, 7, 20)

Row(dates, amounts, text) == [dates |-> dates, amounts |-> amounts, text |-> text]

Rows ==
    {Row(<<Date(2024, 7, 1), Date(2020, 7, 1)>>, <<12000>>, "07/01/2024 $120.00"),
     Row(<<Date(2024, 6, 1), Date(2020, 6, 1)>>, <<11000>>, "06/01/2024 $110.00"),
     Row(<<Date(2024, 6, 15), Date(2020, 6, 15)>>, <<11500>>, "06/15/2024 $115.00"),
     Row(<<Date(2022, 3, 10)>>, <<8850>>, "2022-03-10 $88.50"),
     Row(<<Date(2024, 3, 10)>>, <<8850>>, "2024-03-10 $88.50 Water"),
     Row(<<Date(2026, 3, 10)>>, <<8850>>, "2026-03-10 $88.50 Sewer fee"),
     Row(<<Date(2024, 6, 20)>>, <<11500>>, "2024-06-20 Payment received $115.00"),
     Row(<<BadDate, Date(2024, 7, 2)>>, <<50, 999900, 9900>>,
         "2024-13-45 2024-07-02 $0.50 $9,999.00 $99.00")}

Item(date, amount, ok, description) ==
    [date |-> date, amount |-> amount, amount_ok |-> ok, description |-> description]

ApiItems ==
    {Item(Date(2024, 7, 1), 12000, TRUE, "July"),
     Item(Date(2024, 6, 1), 11000, TRUE, "June"),
     Item(Date(2024, 6, 15), 11500, TRUE, "June"),
     Item(Date(2024, 5, 2), 50, TRUE, "May"),
     Item(Date(2024, 4, 3), 999900, TRUE, "April"),
     Item(Date(2024, 3, 1), 0, TRUE, "March"),
     Item(BadDate, 12000, TRUE, "July"),
     Item(Date(2024, 7, 1), 0, FALSE, "July")}

ApiAnswers ==
    {[endpoints |-> FALSE, answered |-> FALSE, items |-> <<>>],
     [endpoints |-> TRUE, answered |-> FALSE, items |-> <<>>]}
    \cup {[endpoints |-> TRUE, answered |-> TRUE, items |-> it] :
            it \in SeqsUpTo(ApiItems, MaxItems)}

OracleBill(date, amount, ok, type, description) ==
    [date |-> date, amount |-> amount, amount_ok |-> ok, type |-> type,
     description |-> description]

OracleBills ==
    {OracleBill(Date(2024, 7, 1), 12000, TRUE, "bill", "July bill"),
     OracleBill(Date(2024, 6, 1), 11000, TRUE, "bill", "June bill"),
     OracleBill(Date(2024, 6, 15), 11500, TRUE, "payment", "June payment"),
     OracleBill(Date(2024, 5, 2), 999900, TRUE, "bill", "May bill"),
     OracleBill(BadDate, 12000, TRUE, "bill", "no date"),
     OracleBill(Date(2024, 7, 1), 0, FALSE, "bill", "no amount")}

NoAnswer == [ok |-> FALSE, bills |-> <<>>]

AiAnswers == {NoAnswer} \cup {[ok |-> TRUE, bills |-> b] : b \in SeqsUpTo(OracleBills, MaxItems)}

VisionAnswers ==
    {[shot |-> FALSE, ok |-> FALSE, bills |-> <<>>],
     [shot |-> TRUE, ok |-> FALSE, bills |-> <<>>]}
    \cup {[shot |-> TRUE, ok |-> TRUE, bills |-> b] : b \in SeqsUpTo(OracleBills, MaxItems)}

Match(amount, date, type) == [amount |-> amount, date |-> date, type |-> type]

DashMatches ==
    {Match(12000, BadDate, "current_bill"),
     Match(4500, Date(2024, 6, 10), "amount_due"),
     Match(11000, Date(2024, 6, 1), "last_payment"),
     Match(750000, BadDate, "balance"),
     Match(50, Date(2024, 5, 5), "paid_amount"),
     Match(2500, BadDate, "dollar_amount"),
     Match(500, BadDate, "dollar_amount")}

HtmlPages ==
    {[rows |-> r, ai |-> NoAnswer, dash |-> <<>>] : r \in SeqsUpTo(Rows, MaxTx)}
    \cup {[rows |-> <<>>, ai |-> a, dash |-> <<>>] : a \in AiAnswers}
    \cup {[rows |-> <<>>, ai |-> NoAnswer, dash |-> d] : d \in SeqsUpTo(DashMatches, MaxItems)}

(***************************************************************************)
(* NavigationAgent: the links of a page.  An element is what the code      *)
(* reads of it: its text (lower-cased by get_text().lower()), its href and *)
(* how many terms of HIGH_PRIORITY_NAV, MEDIUM_PRIORITY_NAV and            *)
(* LOW_PRIORITY_NAV the text and the href contain.                         *)
(***************************************************************************)
BaseDomain == "https://portal.example"

EntryUrl == BaseDomain \o "/home"

\* driver.current_url when exploration starts: the portal's home page, or
\* its billing page under the hash route.
EntryUrls == {EntryUrl, BaseDomain \o "/#/billing"}

Element(text, href, high_text, high_href, medium_text, medium_href, low_text, history_href) ==
    [text |-> text, href |-> href, high_text |-> high_text, high_href |-> high_href,
     medium_text |-> medium_text, medium_href |-> medium_href, low_text |-> low_text,
     history_href |-> history_href]

Elements ==
    {Element("billing history", "/billing-history", 2, 1, 0, 0, 0, TRUE),
     Element("my account", "/account", 0, 0, 2, 1, 0, FALSE),
     Element("help", "/help", 0, 0, 0, 0, 0, FALSE),
     Element("account overview", "/home", 0, 0, 1, 0, 1, FALSE)}

\* _calculate_billing_score(text, href)
_calculate_billing_score(e) ==
    Min2(50 * e.high_text + 30 * e.high_href + 30 * e.medium_text + 20 * e.medium_href
         + 15 * e.low_text + (IF e.history_href THEN 40 ELSE 0), 100)

\* _construct_full_url: every href of Elements starts with '/'.
_construct_full_url(e) == BaseDomain \o e.href

\* A link as the loops read it.  shape tells what link['url'] is: "ok" a
\* string, "nourl" a missing key, "nonhash" a JSON list.
Link(url, text, score) == [shape |-> "ok", url |-> url, text |-> text, score |-> score]

\* _analyze_element_for_billing: None is returned for a text shorter than 2,
\* a score under 30 and a URL already visited.
ElementAccepted(e, visited) ==
    /\ Len(e.text) >= 2
    /\ _calculate_billing_score(e) >= 30
    /\ _construct_full_url(e) \notin visited

_discover_billing_links(elements, visited) ==
    LET kept == Pick(elements, {k \in 1..Len(elements) : ElementAccepted(elements[k], visited)})
    IN  [k \in 1..Len(kept) |->
           Link(_construct_full_url(kept[k]), kept[k].text, _calculate_billing_score(kept[k]))]

\* COMMON_BILLING_PATTERNS with the text _try_common_billing_patterns gives
\* each: pattern.replace('/#/', '').replace('-', ' ').title().
COMMON_BILLING_PATTERNS ==
    <<<<"/#/billing-history", "Billing History">>,
      <<"/#/transaction-history", "Transaction History">>,
      <<"/#/payment-history", "Payment History">>,
      <<"/#/account-history", "Account History">>,
      <<"/#/billing", "Billing">>,
      <<"/#/transactions", "Transactions">>,
      <<"/#/statements", "Statements">>,
      <<"/#/bills", "Bills">>,
      <<"/#/usage-history", "Usage History">>,
      <<"/ui/#/billing-history", "/Uibilling History">>,
      <<"/ui/#/transaction-history", "/Uitransaction History">>,
      <<"/ui/#/billing", "/Uibilling">>,
      <<"/ui/#/transactions", "/Uitransactions">>>>

_try_common_billing_patterns ==
    [k \in 1..Len(COMMON_BILLING_PATTERNS) |->
       Link(BaseDomain \o COMMON_BILLING_PATTERNS[k][1], COMMON_BILLING_PATTERNS[k][2], 85)]

\* The keyword tests of the fallback ranking on link.get('text', '').lower(),
\* for the texts above, in the order of the elif chain.
TextsBillingHistory ==
    {"billing history", "Billing History", "Transaction History",
     "/Uibilling History", "/Uitransaction History"}

TextsPaymentHistory == {"Payment History", "Account History"}

TextsBills == {"Statements", "Bills"}

TextsBilling == {"Billing", "Transactions", "/Uibilling", "/Uitransactions"}

TextsAccount == {"my account", "account overview", "Usage History"}

\* "Boost scores for key terms": a link without a key term keeps its score.
FallbackScore(link) ==
    IF link.text \in TextsBillingHistory THEN 95
    ELSE IF link.text \in TextsPaymentHistory THEN 90
    ELSE IF link.text \in TextsBills THEN 85
    ELSE IF link.text \in TextsBilling THEN 80
    ELSE IF link.text \in TextsAccount THEN 70
    ELSE link.score

\* sorted(s, key=..., reverse=True) on the keys given: stable, largest first.
SortRank(keys, k) ==
    Cardinality({l \in 1..Len(keys) : keys[l] > keys[k]})
    + Cardinality({l \in 1..(k - 1) : keys[l] = keys[k]}) + 1

\* The list left as it came.
Unsorted(s, keys) == s

SortedDescBy(s, keys) ==
    [r \in 1..Len(s) |-> s[CHOOSE k \in 1..Len(s) : SortRank(keys, k) = r]]

\* The except branch of _rank_billing_links: the scores are rewritten in the
\* links themselves, then the five best are taken.
BoostedLinks(billing_links) ==
    [k \in 1..Len(billing_links) |->
       [billing_links[k] EXCEPT !.score = FallbackScore(billing_links[k])]]

FallbackRanking(billing_links) ==
    LET boosted == BoostedLinks(billing_links)
    IN  Take(SortedDescBy(boosted, [k \in 1..Len(boosted) |-> boosted[k].score]), 5)

(***************************************************************************)
(* The oracle.  A response is [kind, ...]: "raise" the call raised, "text" *)
(* no JSON in the content (empty output included), "nonobject" JSON that   *)
(* is no object; "json" an object, whose fields follow.                    *)
(***************************************************************************)
OracleFailures == {[kind |-> "raise"], [kind |-> "text"], [kind |-> "nonobject"]}

\* BillingDataEvaluator._get_default_evaluation
_get_default_evaluation ==
    [has_sufficient_billing_data |-> FALSE, months_of_data_found |-> 0,
     data_quality |-> "none", billing_entries_found |-> <<>>,
     evaluation_reason |-> "AI evaluation failed"]

\* evaluate_page_sufficiency: every exception, the one _log_evaluation_results
\* raises on a non-object included, ends in the default.
evaluate_page_sufficiency(response) ==
    IF response.kind = "json"
    THEN [has_sufficient_billing_data |-> response.sufficient,
          months_of_data_found |-> response.months,
          data_quality |-> "oracle",
          billing_entries_found |-> response.entries,
          evaluation_reason |-> "oracle"]
    ELSE _get_default_evaluation

\* billing_entries_found of an answer: amounts as _parse_amount reads them.
EvalEntries == {<<>>, <<[date |-> "07/01/2024", amount |-> 12000]>>,
                <<[date |-> "07/01/2024", amount |-> 0]>>}

EvalResponses(fails) ==
    OracleFailures
    \cup (IF fails THEN {}
          ELSE {[kind |-> "json", sufficient |-> FALSE, months |-> 1, entries |-> <<>>]}
               \cup {[kind |-> "json", sufficient |-> TRUE, months |-> 4, entries |-> e] :
                       e \in EvalEntries})

\* str(float) of an amount in cents: 120.0, 88.5, 4.25.
FormatFloat(cents) ==
    ToString(cents \div 100) \o "."
    \o (IF (cents % 100) % 10 = 0 THEN ToString((cents % 100) \div 10) ELSE Pad2(cents % 100))

\* BillingDataEvaluator.extract_with_ai_guidance; the BillInfo is built with
\* the count in previous_month and the first amount in previous_amount.
extract_with_ai_guidance(billing_entries) ==
    LET kept == Pick(billing_entries,
                     {k \in 1..Len(billing_entries) : billing_entries[k].amount > 0})
        all_bills == [k \in 1..Len(kept) |->
                        [date |-> kept[k].date, amount |-> kept[k].amount,
                         description |-> "Utility Bill", type |-> "bill"]]
        current_amount == IF Len(billing_entries) >= 1 /\ billing_entries[1].amount > 0
                          THEN billing_entries[1].amount ELSE 0
        previous_amount == IF Len(billing_entries) >= 2 /\ billing_entries[2].amount > 0
                           THEN billing_entries[2].amount ELSE 0
    IN  IF billing_entries = <<>>
        THEN BillInfo("AI guided extraction failed", 0, "No entries provided", 0)
        ELSE IF all_bills # <<>>
        THEN [previous_month |-> "AI extracted " \o ToString(Len(all_bills)) \o " bills",
              previous_amount |-> current_amount,
              current_month |-> "Previous: $" \o FormatFloat(previous_amount),
              current_amount |-> previous_amount,
              all_bills |-> all_bills]
        ELSE BillInfo("AI guidance found no valid amounts", 0, "No valid bills", 0)

\* ExplorationStrategist._get_default_strategy
_get_default_strategy ==
    [exploration_needed |-> FALSE, current_page_has_billing |-> FALSE,
     next_links |-> <<>>, strategy |-> "AI strategy consultation failed"]

determine_exploration_strategy(response) ==
    IF response.kind = "json"
    THEN [exploration_needed |-> response.exploration_needed,
          current_page_has_billing |-> FALSE,
          next_links |-> response.next_links, strategy |-> "oracle"]
    ELSE _get_default_strategy

\* An entry of next_links: shape "ok" an object with a url, "nourl" an object
\* without, "nondict" no object at all (x.get raises in the sort key).
NextLink(shape, url, priority) == [shape |-> shape, url |-> url, priority |-> priority]

NextLinks ==
    {NextLink("ok", BaseDomain \o "/statements", 5),
     NextLink("ok", BaseDomain \o "/usage", 9),
     NextLink("nourl", "", 1),
     NextLink("nondict", "", 0)}

StrategyResponses(fails) ==
    OracleFailures
    \cup (IF fails THEN {}
          ELSE {[kind |-> "json", exploration_needed |-> FALSE, next_links |-> <<>>]}
               \cup {[kind |-> "json", exploration_needed |-> TRUE, next_links |-> l] :
                       l \in SeqsUpTo(NextLinks, MaxOracleLinks)})

\* sorted(next_links, key=lambda x: x.get('priority', 0), reverse=True)[:3];
\* SortRaises when an entry has no .get.
SortRaises(next_links) == \E k \in 1..Len(next_links) : next_links[k].shape = "nondict"

SortedNextLinks(next_links) ==
    Take(SortedDescBy(next_links, [k \in 1..Len(next_links) |-> next_links[k].priority]), 3)

\* An entry of the oracle's ranked_links: shape as for Link, and "nondict"
\* (link.get raises).
RankedEntry(shape, url, score) == [shape |-> shape, url |-> url, text |-> "", score |-> score]

RankedEntries ==
    {RankedEntry("ok", BaseDomain \o "/billing-history", 90),
     RankedEntry("ok", EntryUrl, 60),
     RankedEntry("nonhash", "", 90),
     RankedEntry("nourl", "", 90),
     RankedEntry("nondict", "", 0)}

RankResponses(fails) ==
    OracleFailures
    \cup (IF fails THEN {}
          ELSE {[kind |-> "json", ranked_links |-> l] :
                  l \in SeqsUpTo(RankedEntries, MaxOracleLinks)})

AtLeast(ranked_links, threshold) ==
    Pick(ranked_links, {k \in 1..Len(ranked_links) : ranked_links[k].score >= threshold})

\* The try block of _rank_billing_links raises: no JSON object, an entry
\* without .get, or one of the first three links printed without a 'url'.
RankingRaises(response) ==
    \/ response.kind # "json"
    \/ \E k \in 1..Len(response.ranked_links) :
          response.ranked_links[k].shape = "nondict"
    \/ LET filtered == IF AtLeast(response.ranked_links, EXPLORATION_THRESHOLD) # <<>>
                       THEN AtLeast(response.ranked_links, EXPLORATION_THRESHOLD)
                       ELSE AtLeast(response.ranked_links, 50)
       IN  \E k \in 1..Min2(3, Len(filtered)) : filtered[k].shape = "nourl"

\* _rank_billing_links: [ranked, links, path]; links is billing_links after
\* the call (the fallback rewrites the scores in place).
_rank_billing_links(billing_links, response) ==
    IF RankingRaises(response)
    THEN [ranked |-> FallbackRanking(billing_links), links |-> BoostedLinks(billing_links),
          path |-> "fallback"]
    ELSE LET filtered == IF AtLeast(response.ranked_links, EXPLORATION_THRESHOLD) # <<>>
                         THEN AtLeast(response.ranked_links, EXPLORATION_THRESHOLD)
                         ELSE AtLeast(response.ranked_links, 50)
         IN  IF filtered = <<>>
             THEN [ranked |-> Take(billing_links, 5), links |-> billing_links,
                   path |-> "original"]
             ELSE [ranked |-> filtered, links |-> billing_links, path |-> "oracle"]

(***************************************************************************)
(* The pages of the site.  A page is what the engine reads of its source:  *)
(* the orchestrator's result for it and the counts                         *)
(* _score_billing_page_quality takes from its text.                        *)
(***************************************************************************)
Tx(date, amount) == [date |-> date, amount |-> amount, type |-> "bill", description |-> "row"]

\* No strategy found anything.
ResultNothing ==
    OrchestratorFallback(_extract_dashboard_amounts(<<>>, Today(2024)),
                         ApiExtract([endpoints |-> FALSE, answered |-> FALSE, items |-> <<>>],
                                    TRUE))

\* One undated "$25.00" on the page: amounts only, no records.
ResultAmountOnly ==
    _extract_dashboard_amounts(<<Match(2500, BadDate, "dollar_amount")>>, Today(2024))

\* A table of two charges under $5.
ResultCheap == _create_bill_info(<<Tx(Date(2024, 7, 1), 450), Tx(Date(2024, 6, 1), 425)>>)

ResultOne == _create_bill_info(<<Tx(Date(2024, 7, 1), 12000)>>)

ResultTwo == _create_bill_info(<<Tx(Date(2021, 7, 1), 12000), Tx(Date(2021, 6, 1), 11000)>>)

ResultThree ==
    _create_bill_info(<<Tx(Date(2024, 7, 1), 12000), Tx(Date(2024, 6, 1), 11000),
                        Tx(Date(2024, 5, 1), 10000)>>)

Page(result, keywords, pairs, current_bills, table_rows, recent_dates, setup) ==
    [result |-> result, keywords |-> keywords, pairs |-> pairs,
     current_bills |-> current_bills, table_rows |-> table_rows,
     recent_dates |-> recent_dates, setup |-> setup]

\* What the browser shows after a navigation that failed, and a page
\* without anything of billing.
BlankPage == Page(ResultNothing, 0, 0, 0, FALSE, 0, FALSE)

Pages ==
    {BlankPage,
     Page(ResultCheap, 0, 0, 0, FALSE, 0, FALSE),
     Page(ResultAmountOnly, 3, 1, 1, FALSE, 1, FALSE),
     Page(ResultTwo, 0, 2, 0, TRUE, 0, FALSE),
     Page(ResultOne, 3, 1, 0, TRUE, 1, FALSE),
     Page(ResultThree, 1, 3, 0, FALSE, 3, FALSE),
     Page(ResultNothing, 3, 3, 0, TRUE, 3, FALSE),
     Page(ResultNothing, 1, 0, 0, FALSE, 0, TRUE)}

\* _try_expand_dropdown_menus looks for elements whose text, upper-cased,
\* holds BILL, PAY, BILLING, USAGE or ACCOUNT and clicks the first.
HasClickKeyword(e) == e.text \in {"billing history", "my account", "account overview"}

\* _try_expand_dropdown_menus on a page with these clickable elements, the
\* browser on url showing shown: what the browser is on afterwards.  The
\* click opens a menu in place (or finds nothing, or raises), or, the
\* element being a link, loads its href.
_try_expand_dropdown_menus(elements, url, shown) ==
    LET clickable == Pick(elements, {k \in 1..Len(elements) : HasClickKeyword(elements[k])})
    IN  {[current_url |-> url, page |-> shown]}
        \cup (IF clickable = <<>> THEN {}
              ELSE {[current_url |-> _construct_full_url(clickable[1]), page |-> BlankPage]})

\* _score_billing_page_quality on the counts of a page; first without
\* "score = min(score, 100)".
_score_billing_page_quality_uncapped(page) ==
    LET keyword_score == IF page.keywords >= 3 THEN 30
                         ELSE IF page.keywords >= 1 THEN 20 ELSE 0
        pair_score == IF page.pairs >= 3 THEN 50 + Min2((page.pairs - 3) * 10, 20)
                      ELSE IF page.pairs >= 2 THEN 35
                      ELSE IF page.pairs >= 1 THEN 25 ELSE 0
        current_bonus == IF page.current_bills >= 2 THEN Min2(page.current_bills * 10, 20)
                         ELSE 0
        table_bonus == IF page.table_rows THEN 10 ELSE 0
        recent_bonus == IF page.recent_dates > 0 THEN Min2(page.recent_dates * 5, 15) ELSE 0
    IN  keyword_score + pair_score + current_bonus + table_bonus + recent_bonus

_score_billing_page_quality(page) ==
    LET keyword_score == IF page.keywords >= 3 THEN 30
                         ELSE IF page.keywords >= 1 THEN 20 ELSE 0
        pair_score == IF page.pairs >= 3 THEN 50 + Min2((page.pairs - 3) * 10, 20)
                      ELSE IF page.pairs >= 2 THEN 35
                      ELSE IF page.pairs >= 1 THEN 25 ELSE 0
        current_bonus == IF page.current_bills >= 2 THEN Min2(page.current_bills * 10, 20)
                         ELSE 0
        table_bonus == IF page.table_rows THEN 10 ELSE 0
        recent_bonus == IF page.recent_dates > 0 THEN Min2(page.recent_dates * 5, 15) ELSE 0
    IN  Min2(keyword_score + pair_score + current_bonus + table_bonus + recent_bonus, 100)

\* "If score >= 85, this is a good billing page"
HighScoreNoMore(billing_score) == billing_score > 85

HighScore(billing_score) == billing_score >= 85

(***************************************************************************)
(* _explore_links_with_scoring: what the loop does with the value          *)
(* _explore_single_link returned, the browser showing page.                *)
(***************************************************************************)
\* "if billing_score > highest_score" with the comparison loosened.
BeatsBestOrEqual(billing_score, highest_score) == billing_score >= highest_score

BeatsBest(billing_score, highest_score) == billing_score > highest_score

\* [stop, result, best_result, highest_score]
FoldResult(result, page, best_result, highest_score) ==
    LET billing_score == _score_billing_page_quality(page)
    IN  IF result # None /\ has_meaningful_billing_data(result)
        THEN IF HighScore(billing_score)
             THEN [stop |-> TRUE, result |-> result,
                   best_result |-> best_result, highest_score |-> highest_score]
             ELSE IF BeatsBest(billing_score, highest_score)
             THEN [stop |-> FALSE, result |-> None,
                   best_result |-> result, highest_score |-> billing_score]
             ELSE [stop |-> FALSE, result |-> None,
                   best_result |-> best_result, highest_score |-> highest_score]
        ELSE [stop |-> FALSE, result |-> None,
              best_result |-> best_result, highest_score |-> highest_score]

\* The end of _explore_links_with_scoring.
ExplorationResult(best_result) ==
    IF best_result # None THEN best_result
    ELSE BillInfo("No meaningful data found", 0, "Exploration completed", 0)

\* "If exploration found better data, use it; otherwise use dashboard data"
FinalChoice(exploration_result, best_dashboard_result) ==
    IF has_meaningful_billing_data(exploration_result) /\ exploration_result.all_bills # <<>>
    THEN exploration_result
    ELSE IF best_dashboard_result # None /\ has_meaningful_billing_data(best_dashboard_result)
    THEN best_dashboard_result
    ELSE exploration_result

\* The return at "No billing links found at all" / "No links meet ranking
\* criteria".
DashboardOr(best_dashboard_result, sentinel) ==
    IF best_dashboard_result # None /\ has_meaningful_billing_data(best_dashboard_result)
    THEN best_dashboard_result
    ELSE sentinel

(***************************************************************************)
(* State of one call of SmartExtractionOrchestrator.extract_billing_data.   *)
(***************************************************************************)
VARIABLES
    \* SmartExtractionOrchestrator.extract_billing_data, one call
    x_pc,            \* "api", "html", "vision", "done"
    current_year,    \* datetime.now().year
    has_driver,      \* driver is not None
    is_billing_page, \* the caller's flag
    api_result,
    html_result,
    vision_result,
    x_ret,           \* the value returned
    x_path,          \* the path that produced x_ret
    x_raw,           \* table path: the list given to deduplicate_transactions
    x_deduped,       \* table path: the list it returned
    x_given          \* the list given to _create_bill_info, if it was called

xvars == <<x_pc, current_year, has_driver, is_billing_page, api_result, html_result,
           vision_result, x_ret, x_path, x_raw, x_deduped, x_given>>

XInit ==
    /\ x_pc = "api"
    /\ current_year \in NowYears
    /\ has_driver = TRUE     \* every caller passes self.driver
    /\ is_billing_page \in BOOLEAN
    /\ api_result = None
    /\ html_result = None
    /\ vision_result = None
    /\ x_ret = None
    /\ x_path = "none"
    /\ x_raw = <<>>
    /\ x_deduped = <<>>
    /\ x_given = <<>>

\* "Try API first"
TryApi ==
    /\ x_pc = "api"
    /\ \E api \in ApiAnswers :
         LET r == ApiExtract(api, has_driver)
         IN  /\ api_result' = r
             /\ IF has_meaningful_billing_data(r)
                THEN /\ x_ret' = r
                     /\ x_path' = "api"
                     /\ x_given' = ApiBills(api.items)
                     /\ x_pc' = "done"
                ELSE /\ x_pc' = "html"
                     /\ UNCHANGED <<x_ret, x_path, x_given>>
    /\ UNCHANGED <<current_year, has_driver, is_billing_page, html_result, vision_result,
                   x_raw, x_deduped>>

\* "Try HTML extraction"; when it fails and the page is no billing page (or
\* there is no vision), the call ends here with the fallback.
TryHtml ==
    /\ x_pc = "html"
    /\ \E h \in {HtmlExtract(html, current_year, Today(current_year)) : html \in HtmlPages} :
             /\ html_result' = h.result
             /\ x_raw' = h.raw
             /\ x_deduped' = h.deduped
             /\ IF has_meaningful_billing_data(h.result)
                THEN /\ x_ret' = h.result
                     /\ x_path' = h.path
                     /\ x_given' = h.given
                     /\ x_pc' = "done"
                ELSE IF is_billing_page
                THEN /\ x_pc' = "vision"
                     /\ UNCHANGED <<x_ret, x_path, x_given>>
                ELSE /\ x_ret' = OrchestratorFallback(h.result, api_result)
                     /\ x_path' = "none"
                     /\ x_pc' = "done"
                     /\ UNCHANGED x_given
    /\ UNCHANGED <<current_year, has_driver, is_billing_page, api_result, vision_result>>

\* "Try Vision AI only on confirmed billing pages"
TryVision ==
    /\ x_pc = "vision"
    /\ \E vision \in VisionAnswers :
         LET r == VisionExtract(vision, has_driver)
         IN  /\ vision_result' = r
             /\ x_pc' = "done"
             /\ IF has_meaningful_billing_data(r)
                THEN /\ x_ret' = r
                     /\ x_path' = "vision"
                ELSE /\ x_ret' = OrchestratorFallback(html_result, api_result)
                     /\ x_path' = "none"
    /\ UNCHANGED <<current_year, has_driver, is_billing_page, api_result, html_result,
                   x_raw, x_deduped, x_given>>



(***************************************************************************)
(* State of one call of has_meaningful_billing_data (utils/utils.py).       *)
(***************************************************************************)
VARIABLES
    m_pc,       \* "idle", "call", "done"
    bill_info,  \* the argument
    m_ret       \* the value returned

mvars == <<m_pc, bill_info, m_ret>>

\* No call of has_meaningful_billing_data on its own is running.
MIdle ==
    /\ m_pc = "idle"
    /\ bill_info = None
    /\ m_ret = FALSE

\* The results the function is called on: headline amounts that are
\* negative, zero or positive, a current_month that is or is not one of the
\* empty indicators, with and without records; and None.
MeaningfulInputs ==
    {None}
    \cup {[previous_month |-> "Previous", previous_amount |-> pa,
           current_month |-> cm, current_amount |-> ca, all_bills |-> bills] :
            pa \in {-500, 0, 11000}, ca \in {-500, 0, 12000},
            cm \in {"Current Bill", "Error", "No billing data found"},
            bills \in {<<>>, <<[date |-> Date(2024, 7, 1), amount |-> 12000,
                               type |-> "bill", description |-> "row"]>>}}

MInit ==
    /\ m_pc = "call"
    /\ bill_info \in MeaningfulInputs
    /\ m_ret = FALSE

CallMeaningful ==
    /\ m_pc = "call"
    /\ m_ret' = has_meaningful_billing_data(bill_info)
    /\ m_pc' = "done"
    /\ UNCHANGED bill_info

(***************************************************************************)
(* Bill-fetch jobs of the backend (backend/app/routes/providers.py): each  *)
(* job runs bill_fetch_job in a thread of JOB_EXECUTOR, which runs          *)
(* see_bills_refactored.run.  A job is followed through the steps at which  *)
(* it touches what the process shares: the job map bill_jobs, the selector  *)
(* cache file CACHE_PATH and the directory 'screenshots' (the server runs   *)
(* in backend/, so the directory written by save_screenshot_for_analysis    *)
(* is the one the job's cleanup empties).                                   *)
(***************************************************************************)
MaxJobs == 2

\* time.strftime("%Y%m%d_%H%M%S") has one value per second.
MaxSecond == 2

Jobs == 1..MaxJobs

\* The host of a provider's login URL.
JobHosts == {"a.example", "b.example"}

VARIABLES
    job,          \* per job: pc, host, cache (what load_cache returned),
                  \* screenshot_path, vision_input (what call_ollama_vision opened)
    bill_jobs,    \* job id -> status
    cache_file,   \* CACHE_PATH: the hosts it has selectors for
    screenshots,  \* the directory: <<timestamp, job that wrote the file>>
    clock         \* the second of the wall clock

jvars == <<job, bill_jobs, cache_file, screenshots, clock>>

\* No job exists.
JIdle ==
    /\ job = <<>>
    /\ bill_jobs = <<>>
    /\ cache_file = {}
    /\ screenshots = {}
    /\ clock = 1

\* fetch_provider_bill has stored each job as pending and handed it to the
\* executor.
JInit ==
    /\ job \in [Jobs -> {[pc |-> "pending", host |-> h, cache |-> {},
                          screenshot_path |-> 0, vision_input |-> "none"] :
                           h \in JobHosts}]
    /\ bill_jobs = [id \in Jobs |-> "pending"]
    /\ cache_file = {}
    /\ screenshots = {}
    /\ clock = 1

\* bill_fetch_job, first line.
JobStart(id) ==
    /\ job[id].pc = "pending"
    /\ bill_jobs' = [bill_jobs EXCEPT ![id] = "in_progress"]
    /\ job' = [job EXCEPT ![id].pc = "analyze"]
    /\ UNCHANGED <<cache_file, screenshots, clock>>

\* analyze_page_for_login up to its first await: load_cache and the look
\* for the host.
AnalyzeLoad(id) ==
    /\ job[id].pc = "analyze"
    /\ job' = [job EXCEPT ![id].cache = cache_file,
                          ![id].pc = IF job[id].host \in cache_file
                                     THEN "extract" ELSE "discover"]
    /\ UNCHANGED <<bill_jobs, cache_file, screenshots, clock>>

\* analyze_page_for_login after the analysis: with selectors found the
\* loaded dictionary gets the host and is written back whole; without,
\* run returns 'No login elements found'.
AnalyzeSave(id) ==
    /\ job[id].pc = "discover"
    /\ \E found \in BOOLEAN :
         IF found
         THEN /\ cache_file' = job[id].cache \cup {job[id].host}
              /\ job' = [job EXCEPT ![id].pc = "extract"]
              /\ UNCHANGED bill_jobs
         ELSE /\ bill_jobs' = [bill_jobs EXCEPT ![id] = "error"]
              /\ job' = [job EXCEPT ![id].pc = "cleanup"]
              /\ UNCHANGED cache_file
    /\ UNCHANGED <<screenshots, clock>>

\* extract_bill: save_screenshot_for_analysis writes
\* screenshots/billing_analysis_<timestamp>.png, over a file of that name.
SaveScreenshot(id) ==
    /\ job[id].pc = "extract"
    /\ \E timestamp \in clock..MaxSecond :
         /\ clock' = timestamp
         /\ screenshots' = {f \in screenshots : f[1] # timestamp} \cup {<<timestamp, id>>}
         /\ job' = [job EXCEPT ![id].screenshot_path = timestamp, ![id].pc = "vision"]
    /\ UNCHANGED <<bill_jobs, cache_file>>

\* extract_bill: call_ollama_vision opens the file (a missing file raises,
\* extract_bill goes on with the text of the page); run returns and
\* bill_fetch_job stores the status.
CallVision(id) ==
    /\ job[id].pc = "vision"
    /\ job' = [job EXCEPT
                 ![id].vision_input =
                     IF <<job[id].screenshot_path, id>> \in screenshots THEN "own"
                     ELSE IF \E f \in screenshots : f[1] = job[id].screenshot_path
                     THEN "other" ELSE "missing",
                 ![id].pc = "cleanup"]
    /\ \E success \in BOOLEAN :
         bill_jobs' = [bill_jobs EXCEPT ![id] = IF success THEN "done" ELSE "error"]
    /\ UNCHANGED <<cache_file, screenshots, clock>>

\* bill_fetch_job, finally: every file of the directory is removed.
Cleanup(id) ==
    /\ job[id].pc = "cleanup"
    /\ screenshots' = {}
    /\ job' = [job EXCEPT ![id].pc = "done"]
    /\ UNCHANGED <<bill_jobs, cache_file, clock>>

(***************************************************************************)
(* State of one call of a function taken on its own:                       *)
(* NavigationAgent._rank_billing_links.                                    *)
(***************************************************************************)
MaxRankLinks == 2
\* _score_billing_page_quality: keywords found, unique pairs found.
MaxKeywords == 3
MaxPairs == 5

VARIABLES
    rk_pc,             \* "idle", "call", "done"
    rk_billing_links,  \* the argument
    rk_response,       \* the oracle's answer to the ranking prompt
    rk_ret             \* the list returned

rkvars == <<rk_pc, rk_billing_links, rk_response, rk_ret>>

RkIdle ==
    /\ rk_pc = "idle"
    /\ rk_billing_links = <<>>
    /\ rk_response = [kind |-> "raise"]
    /\ rk_ret = <<>>


\* What explore_for_billing_data hands to _rank_billing_links: the links
\* discovered on a page with up to MaxRankLinks clickable elements, or the
\* common patterns; never an empty list.
RankInputs ==
    ({_discover_billing_links(e, {EntryUrl}) : e \in SeqsUpTo(Elements, MaxRankLinks)}
     \ {<<>>})
    \cup {_try_common_billing_patterns}

RkInit ==
    /\ rk_pc = "call"
    /\ rk_billing_links \in RankInputs
    /\ rk_response \in RankResponses(FALSE)
    /\ rk_ret = <<>>

CallRank ==
    /\ rk_pc = "call"
    /\ rk_ret' = _rank_billing_links(rk_billing_links, rk_response).ranked
    /\ rk_pc' = "done"
    /\ UNCHANGED <<rk_billing_links, rk_response>>

(***************************************************************************)
(* One call of _score_billing_page_quality.                                *)
(***************************************************************************)
VARIABLES
    sc_pc,             \* "idle", "call", "done"
    sc_page,           \* what the function reads of page_source
    sc_ret             \* the score returned

scvars == <<sc_pc, sc_page, sc_ret>>

ScIdle ==
    /\ sc_pc = "idle"
    /\ sc_page = BlankPage
    /\ sc_ret = 0

\* The pages _score_billing_page_quality can be given, as the counts it
\* takes from them: keywords of the 7 of billing_keywords found, unique
\* pairs, how many of them have source 'current_bill', whether one has
\* source 'table_row', how many hold this year or the last in their date.
\* A 'current_bill' pair is dated datetime.now(), so it is a recent one.
ScorePages ==
    {Page(ResultNothing, k, p, c, t, r, FALSE) :
        k \in 0..MaxKeywords, p \in 0..MaxPairs, c \in 0..MaxPairs,
        t \in BOOLEAN, r \in 0..MaxPairs}

ScoreInputs ==
    {g \in ScorePages :
        /\ g.current_bills <= g.recent_dates
        /\ g.recent_dates <= g.pairs
        /\ g.table_rows => g.current_bills < g.pairs}

ScInit ==
    /\ sc_pc = "call"
    /\ sc_page \in ScoreInputs
    /\ sc_ret = 0

CallScore ==
    /\ sc_pc = "call"
    /\ sc_ret' = _score_billing_page_quality(sc_page)
    /\ sc_pc' = "done"
    /\ UNCHANGED sc_page

(***************************************************************************)
(* One pass of the try of _explore_links_with_scoring on its own: the call *)
(* of _explore_single_link for one link, then the scoring of               *)
(* driver.page_source.                                                     *)
(***************************************************************************)
VARIABLES
    sl_pc,             \* "idle", "call", "sub", "returned", "scored", "skipped"
    sl_loaded,         \* driver.get(url) of the link came back
    sl_own,            \* the page of the link, page_source of _explore_single_link
    sl_shown,          \* what the browser shows, driver.page_source
    sl_visited,        \* self.visited_urls
    sl_links,          \* sorted_links[:3]
    sl_j,              \* position in sl_links, from 1
    sl_ret,            \* the value _explore_single_link returned
    sl_from,           \* the page the returned value was extracted from
    sl_score           \* billing_score of the loop

slvars == <<sl_pc, sl_loaded, sl_own, sl_shown, sl_visited, sl_links, sl_j, sl_ret,
            sl_from, sl_score>>

SlIdle ==
    /\ sl_pc = "idle"
    /\ sl_loaded = FALSE
    /\ sl_own = BlankPage
    /\ sl_shown = BlankPage
    /\ sl_visited = {}
    /\ sl_links = <<>>
    /\ sl_j = 0
    /\ sl_ret = None
    /\ sl_from = BlankPage
    /\ sl_score = 0

\* The link of the pass.
SlUrl == BaseDomain \o "/billing-history"

\* The entry page is visited; a page the oracle may recommend can be too.
SlInit ==
    /\ sl_pc = "call"
    /\ sl_loaded = FALSE
    /\ sl_own = BlankPage
    /\ sl_shown = BlankPage
    /\ sl_visited \in {{EntryUrl}, {EntryUrl, BaseDomain \o "/statements"}}
    /\ sl_links = <<>>
    /\ sl_j = 0
    /\ sl_ret = None
    /\ sl_from = BlankPage
    /\ sl_score = 0

(***************************************************************************)
(* One job of bill_jobs and the polls of its status: bill_fetch_job runs   *)
(* in a thread of JOB_EXECUTOR, fetch_bill_status in the server's event    *)
(* loop, so a poll can come between any two statements of the job.  The    *)
(* poll is taken as one look at the whole entry.                           *)
(***************************************************************************)
VARIABLES
    bj_pc,             \* where bill_fetch_job stands
    bj_entry,          \* bill_jobs[job_id]
    bj_seen            \* what the last fetch_bill_status returned

bjvars == <<bj_pc, bj_entry, bj_seen>>

JobEntry(status, progress, bill, error) ==
    [status |-> status, progress |-> progress, bill |-> bill, error |-> error]

\* No poll has been answered.
NoPoll == JobEntry("none", 0, "None", "None")

BjIdle ==
    /\ bj_pc = "idle"
    /\ bj_entry = NoPoll
    /\ bj_seen = NoPoll

\* fetch_provider_bill has answered: with a fresh cache entry the job is
\* stored as done and no thread runs; otherwise it is stored as pending and
\* handed to the executor.
BjInit ==
    /\ \/ /\ bj_pc = "end"
          /\ bj_entry = JobEntry("done", 100, "bill", "None")
       \/ /\ bj_pc = "pending"
          /\ bj_entry = JobEntry("pending", 0, "None", "None")
    /\ bj_seen = NoPoll

\* bill_fetch_job, first line; _smooth_progress is started.
BjStart ==
    /\ bj_pc = "pending"
    /\ bj_entry' = JobEntry("in_progress", 10, "None", "None")
    /\ bj_pc' = "run"
    /\ UNCHANGED bj_seen

\* _smooth_progress, one turn of its loop while fetch_bill_run is awaited.
BjPump ==
    /\ bj_pc = "run"
    /\ bj_entry.status = "in_progress"
    /\ bj_entry.progress < 80
    /\ bj_entry' = [bj_entry EXCEPT !.progress = Min2(bj_entry.progress + 5, 80)]
    /\ UNCHANGED <<bj_pc, bj_seen>>

\* fetch_bill_run came back with a result, "progress = 90", or raised.
BjFetched ==
    /\ bj_pc = "run"
    /\ \/ /\ bj_entry' = [bj_entry EXCEPT !.progress = 90]
          /\ bj_pc' \in {"success", "failure"}
       \/ /\ bj_pc' = "failure"
          /\ UNCHANGED bj_entry
    /\ UNCHANGED bj_seen

\* bill_jobs[job_id]["status"] = "done"
BjStatusDone ==
    /\ bj_pc = "success"
    /\ bj_entry' = [bj_entry EXCEPT !.status = "done"]
    /\ bj_pc' = "done_status"
    /\ UNCHANGED bj_seen

\* bill_jobs[job_id]["progress"] = 100
BjProgressDone ==
    /\ bj_pc = "done_status"
    /\ bj_entry' = [bj_entry EXCEPT !.progress = 100]
    /\ bj_pc' = "persist"
    /\ UNCHANGED bj_seen

\* The two awaited writes to the database, failed or not, then
\* bill_jobs[job_id]["bill"] = bill_data.
BjStoreBill ==
    /\ bj_pc = "persist"
    /\ bj_entry' = [bj_entry EXCEPT !.bill = "bill"]
    /\ bj_pc' = "finally"
    /\ UNCHANGED bj_seen

\* The else branch and the except branch: status, error, progress.
BjStatusError ==
    /\ bj_pc = "failure"
    /\ bj_entry' = [bj_entry EXCEPT !.status = "error"]
    /\ bj_pc' = "error_status"
    /\ UNCHANGED bj_seen

BjErrorSet ==
    /\ bj_pc = "error_status"
    /\ bj_entry' = [bj_entry EXCEPT !.error = "error"]
    /\ bj_pc' = "error_set"
    /\ UNCHANGED bj_seen

BjProgressError ==
    /\ bj_pc = "error_set"
    /\ bj_entry' = [bj_entry EXCEPT !.progress = 100]
    /\ bj_pc' = "finally"
    /\ UNCHANGED bj_seen

\* finally: the pumper is cancelled, the screenshots are removed.
BjFinally ==
    /\ bj_pc = "finally"
    /\ bj_pc' = "end"
    /\ UNCHANGED <<bj_entry, bj_seen>>

\* fetch_bill_status: "job = bill_jobs.get(job_id) ... return job"
fetch_bill_status ==
    /\ bj_pc # "idle"
    /\ bj_seen' = bj_entry
    /\ UNCHANGED <<bj_pc, bj_entry>>

(***************************************************************************)
(* deduplicate_transactions called on a list and on the same list in       *)
(* another order.                                                          *)
(***************************************************************************)
VARIABLES
    dd_pc,             \* "idle", "call", "again", "done"
    dd_transactions,   \* the argument of the first call
    dd_reordered,      \* the argument of the second call
    dd_ret,            \* what the first call returned
    dd_ret_reordered   \* what the second call returned

ddvars == <<dd_pc, dd_transactions, dd_reordered, dd_ret, dd_ret_reordered>>

DdIdle ==
    /\ dd_pc = "idle"
    /\ dd_transactions = <<>>
    /\ dd_reordered = <<>>
    /\ dd_ret = <<>>
    /\ dd_ret_reordered = <<>>

\* Records as _extract_historical_transactions builds them; the first three
\* have one key (03-10, 88.50, bill).
DedupItems ==
    {[date |-> Date(2023, 3, 10), amount |-> 8850, type |-> "bill", description |-> "Water"],
     [date |-> Date(2025, 3, 10), amount |-> 8850, type |-> "bill", description |-> "Sewer"],
     [date |-> Date(2024, 3, 10), amount |-> 8850, type |-> "bill", description |-> "Water"],
     [date |-> Date(2024, 6, 1), amount |-> 11000, type |-> "bill", description |-> "Water"]}

\* The orderings of a list.
Orderings(seq) ==
    {[k \in 1..Len(seq) |-> seq[p[k]]] : p \in Permutations(1..Len(seq))}

DdInit ==
    /\ dd_pc = "call"
    /\ dd_transactions \in SeqsUpTo(DedupItems, MaxTx)
    /\ dd_reordered \in Orderings(dd_transactions)
    /\ dd_ret = <<>>
    /\ dd_ret_reordered = <<>>

CallDedup ==
    /\ dd_pc = "call"
    /\ dd_ret' = deduplicate_transactions(dd_transactions, current_year)
    /\ dd_pc' = "again"
    /\ UNCHANGED <<dd_transactions, dd_reordered, dd_ret_reordered>>

CallDedupReordered ==
    /\ dd_pc = "again"
    /\ dd_ret_reordered' = deduplicate_transactions(dd_reordered, current_year)
    /\ dd_pc' = "done"
    /\ UNCHANGED <<dd_transactions, dd_reordered, dd_ret>>

pvars == <<rkvars, scvars, slvars, bjvars, ddvars>>

\* No function is called on its own.
PIdle == RkIdle /\ ScIdle /\ SlIdle /\ BjIdle /\ DdIdle

(***************************************************************************)
(* State of one run of NavigationAgent.explore_for_billing_data.           *)
(***************************************************************************)
VARIABLES
    pc,                    \* "start", "eval_main", "discover", "rank", "loop", "sub", "done"
    time_limit,            \* the budget of the run in seconds (MAX_EXPLORATION_TIME)
    oracle_fails,          \* no oracle call of the run gives a JSON object
    elapsed,               \* time.time() - start_time as last read
    page,                  \* what the browser shows
    current_url,           \* driver.current_url
    visited_urls,          \* self.visited_urls
    dashboard_result,
    billing_score,         \* the score of the entry page
    best_dashboard_result,
    billing_links,
    ranked_links,
    i,                     \* the link of ranked_links the loop is at
    billing_data,          \* _explore_single_link: the result of the link's page
    sorted_links,          \* _explore_single_link: the sub-links to try
    j,                     \* the sub-link the inner loop is at
    best_result,
    highest_score,
    ret,                   \* the value returned to the caller
    outcome,               \* "running", "returned", "raised"
    \* history
    saw_meaningful,        \* the orchestrator gave a meaningful result for some page
    nav_calls,             \* number of calls of driver.get
    discover_calls,        \* number of calls of _discover_billing_links
    rank_path,             \* how _rank_billing_links made ranked_links
    answers_when_down      \* what the oracle's consumers returned while oracle_fails

evars == <<pc, time_limit, oracle_fails, elapsed, page, current_url, visited_urls,
           dashboard_result, billing_score, best_dashboard_result,
           billing_links, ranked_links, i, billing_data, sorted_links, j, best_result,
           highest_score, ret, outcome, saw_meaningful, nav_calls, discover_calls,
           rank_path, answers_when_down>>

vars == <<xvars, evars, mvars, jvars, pvars>>

\* The values time.time() - start_time is read as.
ClockValues == {0, 2, MAX_EXPLORATION_TIME + 1}

\* wait_for_spa_content without its sleep.
AfterWaitNoSleep(t) == t

\* wait_for_spa_content sleeps 1.5 s at least once.
AfterWait(t) == IF t < 2 THEN 2 ELSE t

\* A read of the clock: not before the last one, and over every limit once
\* MaxVisits pages were asked for.
ClockReads(t) ==
    {u \in ClockValues : u >= t /\ (nav_calls >= MaxVisits => u > MAX_EXPLORATION_TIME)}

\* The time check left out.
WithinBudgetUnchecked(t) == TRUE

\* The time check at the head of both loops, "elapsed > MAX_EXPLORATION_TIME"
\* not holding: the run goes on.
WithinBudget(t) == t <= time_limit

\* The test on the visited set left out.
AlreadyVisitedIgnored(url) == FALSE

\* "url in self.visited_urls", on a main candidate and on a sub-link.
AlreadyVisited(url) == url \in visited_urls

EBefore ==
    /\ pc = "start"
    /\ elapsed = 0
    /\ visited_urls = {}
    /\ dashboard_result = None
    /\ billing_score = 0
    /\ best_dashboard_result = None
    /\ billing_links = <<>>
    /\ ranked_links = <<>>
    /\ i = 0
    /\ billing_data = None
    /\ sorted_links = <<>>
    /\ j = 0
    /\ best_result = None
    /\ highest_score = 0
    /\ ret = None
    /\ outcome = "running"
    /\ saw_meaningful = FALSE
    /\ nav_calls = 0
    /\ discover_calls = 0
    /\ rank_path = "none"
    /\ answers_when_down = {}

Init ==
    /\ EBefore
    /\ current_url \in EntryUrls
    /\ time_limit \in {0, MAX_EXPLORATION_TIME}
    /\ oracle_fails \in BOOLEAN
    /\ page \in Pages
    \* a run started on the billing route is followed on the blank page only
    /\ current_url # EntryUrl => page = BlankPage
    /\ XInit
    /\ current_year = 2024
    /\ is_billing_page = FALSE
    /\ MIdle
    /\ JIdle
    /\ PIdle

Return(value) ==
    /\ ret' = value
    /\ outcome' = "returned"
    /\ pc' = "done"

Logged(answer) == IF oracle_fails THEN answers_when_down \cup {answer} ELSE answers_when_down

\* explore_for_billing_data up to the first oracle call: the registration
\* check, the entry page's extraction and score, the high-score return.
StartExploration ==
    /\ pc = "start"
    /\ visited_urls' = visited_urls \cup {current_url}
    /\ IF page.setup
       THEN /\ Return(BillInfo("Account setup required", 0, "Complete account setup", 0))
            /\ UNCHANGED <<dashboard_result, billing_score, saw_meaningful>>
       ELSE /\ dashboard_result' = page.result
            /\ billing_score' = _score_billing_page_quality(page)
            /\ saw_meaningful' = has_meaningful_billing_data(page.result)
            /\ IF /\ HighScore(_score_billing_page_quality(page))
                  /\ has_meaningful_billing_data(page.result)
               THEN Return(page.result)
               ELSE /\ pc' = "eval_main"
                    /\ UNCHANGED <<ret, outcome>>
    /\ UNCHANGED <<time_limit, oracle_fails, elapsed, page, current_url,
                   best_dashboard_result, billing_links, ranked_links, i, billing_data,
                   sorted_links, j, best_result, highest_score, nav_calls, discover_calls,
                   rank_path, answers_when_down>>

\* The sufficiency check of the entry page.
EvalMain ==
    /\ pc = "eval_main"
    /\ \E evaluation \in {evaluate_page_sufficiency(r) : r \in EvalResponses(oracle_fails)} :
         /\ answers_when_down' = Logged(evaluation)
         /\ IF evaluation.has_sufficient_billing_data
            THEN /\ Return(dashboard_result)
                 /\ UNCHANGED best_dashboard_result
            ELSE /\ best_dashboard_result' =
                       IF has_meaningful_billing_data(dashboard_result)
                       THEN dashboard_result ELSE None
                 /\ pc' = "discover"
                 /\ UNCHANGED <<ret, outcome>>
    /\ UNCHANGED <<time_limit, oracle_fails, elapsed, page, current_url, visited_urls,
                   dashboard_result, billing_score, billing_links, ranked_links, i,
                   billing_data, sorted_links, j, best_result, highest_score,
                   saw_meaningful, nav_calls, discover_calls, rank_path>>

\* Phase 1: _discover_billing_links, then the common patterns.
Discover ==
    /\ pc = "discover"
    /\ elapsed' = AfterWait(elapsed)
    /\ discover_calls' = discover_calls + 1
    /\ \E e \in SeqsUpTo(Elements, MaxElements) :
       \E browser \in _try_expand_dropdown_menus(e, current_url, page) :
       \E found \in {_discover_billing_links(e, visited_urls)} :
         /\ current_url' = browser.current_url
         /\ page' = browser.page
         /\ billing_links' = IF found # <<>> THEN found ELSE _try_common_billing_patterns
         /\ IF billing_links' = <<>>
            THEN Return(DashboardOr(best_dashboard_result,
                                    BillInfo("No billing links found", 0,
                                             "No navigation available", 0)))
            ELSE /\ pc' = "rank"
                 /\ UNCHANGED <<ret, outcome>>
    /\ UNCHANGED <<time_limit, oracle_fails, visited_urls,
                   dashboard_result, billing_score, best_dashboard_result,
                   ranked_links, i, billing_data, sorted_links, j, best_result,
                   highest_score, saw_meaningful, nav_calls, rank_path, answers_when_down>>

\* Phase 2: _rank_billing_links, then the start of _explore_links_with_scoring.
Rank ==
    /\ pc = "rank"
    /\ \E r \in {_rank_billing_links(billing_links, resp) : resp \in RankResponses(oracle_fails)} :
         /\ ranked_links' = r.ranked
         /\ billing_links' = r.links
         /\ rank_path' = r.path
         /\ IF r.ranked = <<>>
            THEN /\ Return(DashboardOr(best_dashboard_result,
                                       BillInfo("No suitable links found", 0,
                                                "No ranked links", 0)))
                 /\ UNCHANGED <<i, best_result, highest_score>>
            ELSE /\ pc' = "loop"
                 /\ i' = 1
                 /\ best_result' = None
                 /\ highest_score' = 0
                 /\ UNCHANGED <<ret, outcome>>
    /\ UNCHANGED <<time_limit, oracle_fails, elapsed, page, current_url, visited_urls,
                   dashboard_result, billing_score, best_dashboard_result,
                   billing_data, sorted_links, j, saw_meaningful, nav_calls,
                   discover_calls, answers_when_down>>

(***************************************************************************)
(* Phase 3: the loop of _explore_links_with_scoring and, inside it,        *)
(* _explore_single_link.                                                   *)
(***************************************************************************)
\* _explore_single_link returned value with the browser on shown: the loop's
\* scoring of the page, the early return, the best result kept; the locals
\* of _explore_single_link are gone.
AfterLink(value, shown) ==
    LET f == FoldResult(value, shown, best_result, highest_score)
    IN  /\ billing_data' = None
        /\ sorted_links' = <<>>
        /\ j' = 0
        /\ IF f.stop
           THEN /\ Return(FinalChoice(f.result, best_dashboard_result))
                /\ UNCHANGED <<i, best_result, highest_score>>
           ELSE /\ best_result' = f.best_result
                /\ highest_score' = f.highest_score
                /\ i' = i + 1
                /\ pc' = "loop"
                /\ UNCHANGED <<ret, outcome>>

\* "Keep track of best partial result and return it"
PartialResult(data) == IF has_meaningful_billing_data(data) THEN data ELSE None

\* The loop is over, by the end of ranked_links or by the time limit; the
\* caller chooses between its result and the entry page's.
LoopExit ==
    /\ pc = "loop"
    /\ \/ /\ i > Len(ranked_links)
          /\ UNCHANGED elapsed
       \/ /\ i <= Len(ranked_links)
          /\ \E t \in ClockReads(elapsed) : ~WithinBudget(t) /\ elapsed' = t
    /\ Return(FinalChoice(ExplorationResult(best_result), best_dashboard_result))
    /\ UNCHANGED <<time_limit, oracle_fails, page, current_url, visited_urls,
                   dashboard_result, billing_score, best_dashboard_result,
                   billing_links, ranked_links, i, billing_data, sorted_links, j,
                   best_result, highest_score, saw_meaningful, nav_calls, discover_calls,
                   rank_path, answers_when_down>>

\* url = link['url'] without the key, or "url in self.visited_urls" with a
\* url that does not hash: outside every try, the exception leaves
\* explore_for_billing_data.
LoopRaise ==
    /\ pc = "loop"
    /\ i <= Len(ranked_links)
    /\ \E t \in ClockReads(elapsed) : WithinBudget(t) /\ elapsed' = t
    /\ ranked_links[i].shape \in {"nourl", "nonhash"}
    /\ outcome' = "raised"
    /\ pc' = "done"
    /\ UNCHANGED <<time_limit, oracle_fails, page, current_url, visited_urls,
                   dashboard_result, billing_score, best_dashboard_result,
                   billing_links, ranked_links, i, billing_data, sorted_links, j,
                   best_result, highest_score, ret, saw_meaningful, nav_calls,
                   discover_calls, rank_path, answers_when_down>>

\* "Already visited, skipping..."
LoopSkip ==
    /\ pc = "loop"
    /\ i <= Len(ranked_links)
    /\ \E t \in ClockReads(elapsed) : WithinBudget(t) /\ elapsed' = t
    /\ ranked_links[i].shape = "ok"
    /\ AlreadyVisited(ranked_links[i].url)
    /\ i' = i + 1
    /\ UNCHANGED <<pc, time_limit, oracle_fails, page, current_url, visited_urls,
                   dashboard_result, billing_score, best_dashboard_result,
                   billing_links, ranked_links, billing_data, sorted_links, j,
                   best_result, highest_score, ret, outcome, saw_meaningful, nav_calls,
                   discover_calls, rank_path, answers_when_down>>

\* What _explore_single_link does with the loaded page once the oracle has
\* answered: [sub, value, links, answers]; sub = TRUE sends it to the
\* sub-links.
SingleLinkOutcomes(data) ==
    LET evaluations == {evaluate_page_sufficiency(r) : r \in EvalResponses(oracle_fails)}
        strategies == {determine_exploration_strategy(r) : r \in StrategyResponses(oracle_fails)}
        guided(ev) == extract_with_ai_guidance(ev.billing_entries_found)
    IN  {[sub |-> FALSE,
          value |-> IF has_meaningful_billing_data(data) THEN data
                    ELSE IF /\ ev.billing_entries_found # <<>>
                            /\ has_meaningful_billing_data(guided(ev))
                    THEN guided(ev)
                    ELSE PartialResult(data),
          links |-> <<>>, answers |-> {ev}] :
           ev \in {e \in evaluations : e.has_sufficient_billing_data}}
        \cup
        {IF st.exploration_needed /\ st.next_links # <<>>
         THEN IF SortRaises(st.next_links)
              THEN [sub |-> FALSE, value |-> None, links |-> <<>>, answers |-> {ev, st}]
              ELSE [sub |-> TRUE, value |-> None, links |-> SortedNextLinks(st.next_links),
                    answers |-> {ev, st}]
         ELSE [sub |-> FALSE, value |-> PartialResult(data), links |-> <<>>,
               answers |-> {ev, st}] :
           ev \in {e \in evaluations : ~e.has_sufficient_billing_data}, st \in strategies}

\* One link of ranked_links: driver.get, extraction, the oracle's evaluation
\* and strategy, up to the return of _explore_single_link or its first
\* sub-link.
ExploreLink ==
    /\ pc = "loop"
    /\ i <= Len(ranked_links)
    /\ \E t \in ClockReads(elapsed) : WithinBudget(t) /\ elapsed' = t
    /\ ranked_links[i].shape = "ok"
    /\ ~AlreadyVisited(ranked_links[i].url)
    /\ nav_calls' = nav_calls + 1
    /\ \/ \* driver.get raised: None is returned
          /\ page' \in {page, BlankPage}
          /\ AfterLink(None, page')
          /\ UNCHANGED <<current_url, visited_urls, saw_meaningful, answers_when_down>>
       \/ \E shown \in Pages :
            /\ page' = shown
            /\ current_url' = ranked_links[i].url
            /\ visited_urls' = visited_urls \cup {ranked_links[i].url}
            /\ saw_meaningful' = (saw_meaningful \/ has_meaningful_billing_data(shown.result))
            /\ \E o \in SingleLinkOutcomes(shown.result) :
                 /\ answers_when_down' =
                        IF oracle_fails THEN answers_when_down \cup o.answers
                        ELSE answers_when_down
                 /\ IF o.sub
                    THEN /\ pc' = "sub"
                         /\ billing_data' = shown.result
                         /\ sorted_links' = o.links
                         /\ j' = 1
                         /\ UNCHANGED <<i, best_result, highest_score, ret, outcome>>
                    ELSE AfterLink(o.value, shown)
    /\ UNCHANGED <<time_limit, oracle_fails, dashboard_result, billing_score,
                   best_dashboard_result, billing_links, ranked_links, discover_calls,
                   rank_path>>

\* The inner loop is over, by the end of sorted_links or by the time limit:
\* _explore_single_link returns its own page's result if meaningful.
SubExit ==
    /\ pc = "sub"
    /\ \/ /\ j > Len(sorted_links)
          /\ UNCHANGED elapsed
       \/ /\ j <= Len(sorted_links)
          /\ \E t \in ClockReads(elapsed) : ~WithinBudget(t) /\ elapsed' = t
    /\ AfterLink(PartialResult(billing_data), page)
    /\ UNCHANGED <<time_limit, oracle_fails, page, current_url, visited_urls,
                   dashboard_result, billing_score, best_dashboard_result,
                   billing_links, ranked_links, saw_meaningful, nav_calls, discover_calls,
                   rank_path, answers_when_down>>

\* "if not ai_url or ai_url in self.visited_urls: continue"
SubSkip ==
    /\ pc = "sub"
    /\ j <= Len(sorted_links)
    /\ \E t \in ClockReads(elapsed) : WithinBudget(t) /\ elapsed' = t
    /\ \/ sorted_links[j].shape = "nourl"
       \/ AlreadyVisited(sorted_links[j].url)
    /\ j' = j + 1
    /\ UNCHANGED <<pc, time_limit, oracle_fails, page, current_url, visited_urls,
                   dashboard_result, billing_score, best_dashboard_result,
                   billing_links, ranked_links, i, billing_data, sorted_links, best_result,
                   highest_score, ret, outcome, saw_meaningful, nav_calls, discover_calls,
                   rank_path, answers_when_down>>

\* One sub-link: driver.get and the extraction on its page.
SubVisit ==
    /\ pc = "sub"
    /\ j <= Len(sorted_links)
    /\ \E t \in ClockReads(elapsed) : WithinBudget(t) /\ elapsed' = t
    /\ sorted_links[j].shape = "ok"
    /\ ~AlreadyVisited(sorted_links[j].url)
    /\ nav_calls' = nav_calls + 1
    /\ \/ \* driver.get raised: "continue"
          /\ page' \in {page, BlankPage}
          /\ j' = j + 1
          /\ UNCHANGED <<pc, current_url, visited_urls, saw_meaningful, i, billing_data,
                         sorted_links, best_result, highest_score, ret, outcome>>
       \/ \E shown \in Pages :
            /\ page' = shown
            /\ current_url' = sorted_links[j].url
            /\ visited_urls' = visited_urls \cup {sorted_links[j].url}
            /\ saw_meaningful' = (saw_meaningful \/ has_meaningful_billing_data(shown.result))
            /\ IF has_meaningful_billing_data(shown.result)
               THEN AfterLink(shown.result, shown)
               ELSE /\ j' = j + 1
                    /\ UNCHANGED <<pc, i, billing_data, sorted_links, best_result,
                                   highest_score, ret, outcome>>
    /\ UNCHANGED <<time_limit, oracle_fails, dashboard_result, billing_score,
                   best_dashboard_result, billing_links, ranked_links, discover_calls,
                   rank_path, answers_when_down>>

Next ==
    \/ StartExploration /\ UNCHANGED <<xvars, mvars, jvars, pvars>>
    \/ EvalMain /\ UNCHANGED <<xvars, mvars, jvars, pvars>>
    \/ Discover /\ UNCHANGED <<xvars, mvars, jvars, pvars>>
    \/ Rank /\ UNCHANGED <<xvars, mvars, jvars, pvars>>
    \/ LoopExit /\ UNCHANGED <<xvars, mvars, jvars, pvars>>
    \/ LoopRaise /\ UNCHANGED <<xvars, mvars, jvars, pvars>>
    \/ LoopSkip /\ UNCHANGED <<xvars, mvars, jvars, pvars>>
    \/ ExploreLink /\ UNCHANGED <<xvars, mvars, jvars, pvars>>
    \/ SubExit /\ UNCHANGED <<xvars, mvars, jvars, pvars>>
    \/ SubSkip /\ UNCHANGED <<xvars, mvars, jvars, pvars>>
    \/ SubVisit /\ UNCHANGED <<xvars, mvars, jvars, pvars>>

Spec == Init /\ [][Next]_vars

\* The same runs, every call returning or raising: a step that can be taken
\* is taken.
SpecLive == Init /\ [][Next]_vars /\ WF_vars(Next)

(***************************************************************************)
(* One call of extract_billing_data, no exploration running.               *)
(***************************************************************************)
XStart ==
    /\ XInit
    /\ EBefore
    /\ current_url = EntryUrl
    /\ time_limit = MAX_EXPLORATION_TIME
    /\ oracle_fails = FALSE
    /\ page = BlankPage
    /\ MIdle
    /\ JIdle
    /\ PIdle

XStep ==
    \/ TryApi /\ UNCHANGED <<evars, mvars, jvars, pvars>>
    \/ TryHtml /\ UNCHANGED <<evars, mvars, jvars, pvars>>
    \/ TryVision /\ UNCHANGED <<evars, mvars, jvars, pvars>>

SpecExtract == XStart /\ [][XStep]_vars

(***************************************************************************)
(* One call of has_meaningful_billing_data, nothing else running.          *)
(***************************************************************************)
MStart ==
    /\ MInit
    /\ JIdle
    /\ PIdle
    /\ XInit
    /\ current_year = 2024
    /\ is_billing_page = FALSE
    /\ EBefore
    /\ current_url = EntryUrl
    /\ time_limit = MAX_EXPLORATION_TIME
    /\ oracle_fails = FALSE
    /\ page = BlankPage

MStep == CallMeaningful /\ UNCHANGED <<xvars, evars, jvars, pvars>>

SpecMeaningful == MStart /\ [][MStep]_vars

(***************************************************************************)
(* The bill-fetch jobs running side by side, nothing else running.         *)
(***************************************************************************)
JStart ==
    /\ JInit
    /\ PIdle
    /\ MIdle
    /\ XInit
    /\ current_year = 2024
    /\ is_billing_page = FALSE
    /\ EBefore
    /\ current_url = EntryUrl
    /\ time_limit = MAX_EXPLORATION_TIME
    /\ oracle_fails = FALSE
    /\ page = BlankPage

JStep ==
    \/ \E id \in Jobs : JobStart(id) /\ UNCHANGED <<xvars, evars, mvars, pvars>>
    \/ \E id \in Jobs : AnalyzeLoad(id) /\ UNCHANGED <<xvars, evars, mvars, pvars>>
    \/ \E id \in Jobs : AnalyzeSave(id) /\ UNCHANGED <<xvars, evars, mvars, pvars>>
    \/ \E id \in Jobs : SaveScreenshot(id) /\ UNCHANGED <<xvars, evars, mvars, pvars>>
    \/ \E id \in Jobs : CallVision(id) /\ UNCHANGED <<xvars, evars, mvars, pvars>>
    \/ \E id \in Jobs : Cleanup(id) /\ UNCHANGED <<xvars, evars, mvars, pvars>>

SpecJobs == JStart /\ [][JStep]_vars

(***************************************************************************)
(* One call of _rank_billing_links, nothing else running.                  *)
(***************************************************************************)
\* Everything but the functions called on their own is at rest.
OthersIdle ==
    /\ MIdle
    /\ JIdle
    /\ XInit
    /\ current_year = 2024
    /\ is_billing_page = FALSE
    /\ EBefore
    /\ current_url = EntryUrl
    /\ time_limit = MAX_EXPLORATION_TIME
    /\ oracle_fails = FALSE
    /\ page = BlankPage

RkStart == RkInit /\ ScIdle /\ SlIdle /\ BjIdle /\ DdIdle /\ OthersIdle

RkStep == CallRank /\ UNCHANGED <<xvars, evars, mvars, jvars, scvars, slvars, bjvars, ddvars>>

SpecRank == RkStart /\ [][RkStep]_vars

(***************************************************************************)
(* One call of _score_billing_page_quality, nothing else running.          *)
(***************************************************************************)
ScStart == ScInit /\ RkIdle /\ SlIdle /\ BjIdle /\ DdIdle /\ OthersIdle

ScStep == CallScore /\ UNCHANGED <<xvars, evars, mvars, jvars, rkvars, slvars, bjvars, ddvars>>

SpecScore == ScStart /\ [][ScStep]_vars

(***************************************************************************)
(* One pass of the loop of _explore_links_with_scoring, nothing else       *)
(* running.                                                                *)
(***************************************************************************)
\* _explore_single_link returns value, extracted from the page source.
SlReturn(value, source) ==
    /\ sl_ret' = value
    /\ sl_from' = source
    /\ sl_pc' = "returned"
    /\ sl_links' = <<>>
    /\ sl_j' = 0

\* driver.get(url), the extraction, the oracle's evaluation and strategy, up
\* to the return or the first sub-link.
SlLoad ==
    /\ sl_pc = "call"
    /\ \/ \* driver.get raised: "except Exception ... return None"
          /\ sl_shown' \in {sl_shown, BlankPage}
          /\ SlReturn(None, BlankPage)
          /\ UNCHANGED <<sl_loaded, sl_own, sl_visited>>
       \/ \E shown \in Pages :
            /\ sl_loaded' = TRUE
            /\ sl_own' = shown
            /\ sl_shown' = shown
            /\ sl_visited' = sl_visited \cup {SlUrl}
            /\ \E o \in SingleLinkOutcomes(shown.result) :
                 IF o.sub
                 THEN /\ sl_pc' = "sub"
                      /\ sl_links' = o.links
                      /\ sl_j' = 1
                      /\ UNCHANGED <<sl_ret, sl_from>>
                 ELSE SlReturn(o.value, shown)
    /\ UNCHANGED sl_score

\* The inner loop is over, by the end of sorted_links[:3] or by the break on
\* the time limit, which any pass can take: "Keep track of best partial
\* result and return it".
SlSubExit ==
    /\ sl_pc = "sub"
    /\ SlReturn(PartialResult(sl_own.result), sl_own)
    /\ UNCHANGED <<sl_loaded, sl_own, sl_shown, sl_visited, sl_score>>

\* "if not ai_url or ai_url in self.visited_urls: continue"
SlSubSkip ==
    /\ sl_pc = "sub"
    /\ sl_j <= Len(sl_links)
    /\ \/ sl_links[sl_j].shape = "nourl"
       \/ sl_links[sl_j].url \in sl_visited
    /\ sl_j' = sl_j + 1
    /\ UNCHANGED <<sl_pc, sl_loaded, sl_own, sl_shown, sl_visited, sl_links, sl_ret,
                   sl_from, sl_score>>

\* One sub-link: driver.get and the extraction on its page.
SlSubVisit ==
    /\ sl_pc = "sub"
    /\ sl_j <= Len(sl_links)
    /\ sl_links[sl_j].shape = "ok"
    /\ sl_links[sl_j].url \notin sl_visited
    /\ \/ \* driver.get raised: "continue"
          /\ sl_shown' \in {sl_shown, BlankPage}
          /\ sl_j' = sl_j + 1
          /\ UNCHANGED <<sl_pc, sl_visited, sl_links, sl_ret, sl_from>>
       \/ \E shown \in Pages :
            /\ sl_shown' = shown
            /\ sl_visited' = sl_visited \cup {sl_links[sl_j].url}
            /\ IF has_meaningful_billing_data(shown.result)
               THEN SlReturn(shown.result, shown)
               ELSE /\ sl_j' = sl_j + 1
                    /\ UNCHANGED <<sl_pc, sl_links, sl_ret, sl_from>>
    /\ UNCHANGED <<sl_loaded, sl_own, sl_score>>

\* "if result and has_meaningful_billing_data(result): page_source =
\* self.driver.page_source; billing_score = ..."
SlScore ==
    /\ sl_pc = "returned"
    /\ IF sl_ret # None /\ has_meaningful_billing_data(sl_ret)
       THEN /\ sl_score' = _score_billing_page_quality(sl_shown)
            /\ sl_pc' = "scored"
       ELSE /\ sl_pc' = "skipped"
            /\ UNCHANGED sl_score
    /\ UNCHANGED <<sl_loaded, sl_own, sl_shown, sl_visited, sl_links, sl_j, sl_ret,
                   sl_from>>

SlStart == SlInit /\ RkIdle /\ ScIdle /\ BjIdle /\ DdIdle /\ OthersIdle

SlStep ==
    \/ SlLoad /\ UNCHANGED <<xvars, evars, mvars, jvars, rkvars, scvars, bjvars, ddvars>>
    \/ SlSubExit /\ UNCHANGED <<xvars, evars, mvars, jvars, rkvars, scvars, bjvars, ddvars>>
    \/ SlSubSkip /\ UNCHANGED <<xvars, evars, mvars, jvars, rkvars, scvars, bjvars, ddvars>>
    \/ SlSubVisit /\ UNCHANGED <<xvars, evars, mvars, jvars, rkvars, scvars, bjvars, ddvars>>
    \/ SlScore /\ UNCHANGED <<xvars, evars, mvars, jvars, rkvars, scvars, bjvars, ddvars>>

SpecLink == SlStart /\ [][SlStep]_vars

(***************************************************************************)
(* One job and the polls of its status, nothing else running.              *)
(***************************************************************************)
BjBegin == BjInit /\ RkIdle /\ ScIdle /\ SlIdle /\ DdIdle /\ OthersIdle

BjStep ==
    \/ BjStart /\ UNCHANGED <<xvars, evars, mvars, jvars, rkvars, scvars, slvars, ddvars>>
    \/ BjPump /\ UNCHANGED <<xvars, evars, mvars, jvars, rkvars, scvars, slvars, ddvars>>
    \/ BjFetched /\ UNCHANGED <<xvars, evars, mvars, jvars, rkvars, scvars, slvars, ddvars>>
    \/ BjStatusDone /\ UNCHANGED <<xvars, evars, mvars, jvars, rkvars, scvars, slvars, ddvars>>
    \/ BjProgressDone /\ UNCHANGED <<xvars, evars, mvars, jvars, rkvars, scvars, slvars, ddvars>>
    \/ BjStoreBill /\ UNCHANGED <<xvars, evars, mvars, jvars, rkvars, scvars, slvars, ddvars>>
    \/ BjStatusError /\ UNCHANGED <<xvars, evars, mvars, jvars, rkvars, scvars, slvars, ddvars>>
    \/ BjErrorSet /\ UNCHANGED <<xvars, evars, mvars, jvars, rkvars, scvars, slvars, ddvars>>
    \/ BjProgressError /\ UNCHANGED <<xvars, evars, mvars, jvars, rkvars, scvars, slvars, ddvars>>
    \/ BjFinally /\ UNCHANGED <<xvars, evars, mvars, jvars, rkvars, scvars, slvars, ddvars>>
    \/ fetch_bill_status /\ UNCHANGED <<xvars, evars, mvars, jvars, rkvars, scvars, slvars, ddvars>>

SpecStatus == BjBegin /\ [][BjStep]_vars

(***************************************************************************)
(* deduplicate_transactions on a list and on a reordering of it, nothing   *)
(* else running.                                                           *)
(***************************************************************************)
DdStart == DdInit /\ RkIdle /\ ScIdle /\ SlIdle /\ BjIdle /\ OthersIdle

DdStep ==
    \/ CallDedup /\ UNCHANGED <<xvars, evars, mvars, jvars, rkvars, scvars, slvars, bjvars>>
    \/ CallDedupReordered /\ UNCHANGED <<xvars, evars, mvars, jvars, rkvars, scvars, slvars, bjvars>>

SpecDedup == DdStart /\ [][DdStep]_vars

(***************************************************************************)
(* Properties of the exploration engine, under Spec.                       *)
(***************************************************************************)
\* C1: a run in which the orchestrator gave a meaningful result for some
\* examined page returns a meaningful value.
C1_MeaningfulPageMeaningfulReturn ==
    (outcome = "returned" /\ saw_meaningful) => has_meaningful_billing_data(ret)

Records(b) == IF b = None THEN 0 ELSE Len(b.all_bills)

\* C2 as stated: no fold decreases the number of records the running best
\* holds, so a result without records never replaces one with records.
C2_RecordCountNeverDecreases ==
    [][Records(best_result') >= Records(best_result)]_vars

\* C2 as the code has it: the best result is kept by page score.  No fold
\* lowers highest_score; best_result changes only to a meaningful result
\* whose page scores strictly higher; in the final choice an exploration
\* result without records never replaces a meaningful entry-page result.
C2_BestKeptByScore ==
    [][/\ highest_score' >= highest_score
       /\ best_result' # best_result =>
             /\ has_meaningful_billing_data(best_result')
             /\ highest_score' > highest_score
       /\ (/\ pc \in {"loop", "sub"}
           /\ outcome' = "returned"
           /\ has_meaningful_billing_data(best_dashboard_result)
           /\ ret' # best_dashboard_result) =>
             ret'.all_bills # <<>>]_vars

\* Two links were asked for, the best of the loop is the amount-only result
\* of a page scoring 60, and the entry page's result was returned instead.
C2_AmountOnlyBestNotReturned ==
    /\ outcome = "returned"
    /\ nav_calls = 2
    /\ best_result = ResultAmountOnly
    /\ highest_score = 60
    /\ has_meaningful_billing_data(best_dashboard_result)
    /\ ret = best_dashboard_result

DefaultAnswer(a) ==
    IF "has_sufficient_billing_data" \in DOMAIN a
    THEN a.has_sufficient_billing_data = FALSE /\ a.months_of_data_found = 0
         /\ a.billing_entries_found = <<>>
    ELSE a.exploration_needed = FALSE /\ a.next_links = <<>>

\* ranked_links are the (at most five) best of billing_links by keyword score.
KeywordRanked ==
    /\ Len(ranked_links) = Min2(5, Len(billing_links))
    /\ \A l \in Range(billing_links) : l.score = FallbackScore(l)
    /\ \A k \in 1..Len(ranked_links) : ranked_links[k] \in Range(billing_links)
    /\ \A k \in 1..(Len(ranked_links) - 1) : ranked_links[k].score >= ranked_links[k + 1].score
    /\ \A l \in Range(billing_links) :
         l \notin Range(ranked_links) => l.score <= ranked_links[Len(ranked_links)].score

\* What is left of a run: decreases with every step.
Measure ==
    CASE pc = "start" -> 1004
      [] pc = "eval_main" -> 1003
      [] pc = "discover" -> 1002
      [] pc = "rank" -> 1001
      [] pc = "loop" -> 5 * (Len(ranked_links) + 2 - i)
      [] pc = "sub" -> 5 * (Len(ranked_links) + 2 - i) - j
      [] OTHER -> 0

\* C5: when every oracle call fails, every sufficiency check gives the
\* default "insufficient", every strategy call the default "no exploration
\* needed" (no sub-link is followed), the ranking is the keyword ranking, and
\* the run never raises, returns a BillInfo and ends: each step brings it
\* closer to its end.
C5_OracleDownDeterministicRun ==
    /\ [](oracle_fails =>
            /\ \A a \in answers_when_down : DefaultAnswer(a)
            /\ pc # "sub"
            /\ rank_path \in {"none", "fallback"}
            /\ rank_path = "fallback" => KeywordRanked
            /\ outcome # "raised"
            /\ outcome = "returned" => ret # None /\ DOMAIN ret = DOMAIN BillInfo("", 0, "", 0)
            /\ pc = "done" <=> outcome # "running")
    /\ [][oracle_fails => Measure' < Measure]_vars

\* The oracle was down, the keyword ranking was used, a link was visited with
\* both defaults given, and the run returned.
C5_OracleDownRunReturned ==
    /\ oracle_fails
    /\ outcome = "returned"
    /\ rank_path = "fallback"
    /\ nav_calls >= 1
    /\ answers_when_down = {_get_default_evaluation, _get_default_strategy}

\* C6: whatever the oracle answers, explore_for_billing_data does not raise.
C6_NeverRaises == outcome # "raised"

(***************************************************************************)
(* Properties of has_meaningful_billing_data, under SpecMeaningful.        *)
(***************************************************************************)
\* C11 as stated: the value returned is true exactly when the result has a
\* record or both headline amounts are positive.
C11_MeaningfulIffRecordsOrBothPositive ==
    m_pc = "done" =>
        (m_ret <=> /\ bill_info # None
                   /\ \/ Len(bill_info.all_bills) >= 1
                      \/ bill_info.current_amount > 0 /\ bill_info.previous_amount > 0)

\* C11 as the code has it: the value returned is true exactly when the
\* result has a record, or its current_month is none of the empty
\* indicators and one of the two headline amounts is positive; None and
\* every other result give false.
C11_MeaningfulIffRecordsOrOnePositive ==
    m_pc = "done" =>
        (m_ret <=> /\ bill_info # None
                   /\ \/ Len(bill_info.all_bills) >= 1
                      \/ /\ bill_info.current_month \notin
                              {"No data found", "Error", "Screenshot failed",
                               "Vision AI found no data", "No driver",
                               "API extraction needs driver", "No APIs found",
                               "No API endpoints detected", "HTML extraction failed",
                               "Vision extraction failed", "No billing data found",
                               "Exploration complete"}
                         /\ \/ bill_info.current_amount > 0
                            \/ bill_info.previous_amount > 0)

\* A result without records whose current amount alone is positive was
\* found meaningful.
C11_OnePositiveAmountMeaningful ==
    /\ m_pc = "done"
    /\ m_ret
    /\ bill_info # None
    /\ bill_info.all_bills = <<>>
    /\ bill_info.current_amount > 0
    /\ bill_info.previous_amount = 0

(***************************************************************************)
(* Properties of the extraction strategies, under SpecExtract.             *)
(***************************************************************************)
SameMonth(a, b) == a.y = b.y /\ a.m = b.m

DatesAmounts(s) == [k \in 1..Len(s) |-> <<s[k].date, s[k].amount>>]

\* C7: every result with records that extract_billing_data returns, whichever
\* strategy produced it, holds at most one record per (year, month).
C7_OneRecordPerMonth ==
    (x_pc = "done" /\ x_ret.all_bills # <<>>) =>
        \A k, l \in 1..Len(x_ret.all_bills) :
            k # l => ~SameMonth(x_ret.all_bills[k].date, x_ret.all_bills[l].date)

\* C8: for a non-empty list of transactions _create_bill_info keeps, for each
\* (year, month) of the input, exactly one record, a record of the input with
\* the latest date of that month, and the kept records are ordered newest
\* first.
C8_MonthlyLatestNewestFirst ==
    (x_pc = "done" /\ x_path \in {"api", "table", "ai_html"}) =>
        LET given == x_given
            kept == x_ret.all_bills
        IN  /\ given # <<>>
            /\ \A k \in 1..Len(kept) : kept[k] \in Range(given)
            /\ \A m \in 1..Len(given) :
                 \E k \in 1..Len(kept) :
                    /\ SameMonth(kept[k].date, given[m].date)
                    /\ DateOrd(kept[k].date) >= DateOrd(given[m].date)
            /\ \A k, l \in 1..Len(kept) :
                 k < l => /\ DateOrd(kept[k].date) > DateOrd(kept[l].date)
                          /\ ~SameMonth(kept[k].date, kept[l].date)

\* The rows 07/01/2024 $120.00, 06/01/2024 $110.00, 06/15/2024 $115.00 went
\* through _create_bill_info and came out as (2024-07-01, 120.00),
\* (2024-06-15, 115.00).
C8_ExampleCollapsed ==
    /\ x_pc = "done"
    /\ x_path = "table"
    /\ DatesAmounts(x_given) = <<<<Date(2024, 7, 1), 12000>>, <<Date(2024, 6, 1), 11000>>,
                                 <<Date(2024, 6, 15), 11500>>>>
    /\ DatesAmounts(x_ret.all_bills) = <<<<Date(2024, 7, 1), 12000>>,
                                         <<Date(2024, 6, 15), 11500>>>>

SameDedupKey(a, b) ==
    /\ a.date.m = b.date.m /\ a.date.d = b.date.d
    /\ a.amount = b.amount /\ a.type = b.type

YearDistance(t) == Abs(t.date.y - current_year)

\* C9: of two records with the same (month-day, amount, kind) and different
\* years deduplicate_transactions keeps only the one whose year is strictly
\* closer to the current year, whichever comes first in the input, and at
\* equal distance the one with the longer description; one record is left
\* per key and it is a record of the input.
C9_DedupKeepsCloserYear ==
    /\ \A k \in 1..Len(x_deduped) : x_deduped[k] \in Range(x_raw)
    /\ \A m \in 1..Len(x_raw) : \E k \in 1..Len(x_deduped) : SameDedupKey(x_deduped[k], x_raw[m])
    /\ \A k, l \in 1..Len(x_deduped) : k # l => ~SameDedupKey(x_deduped[k], x_deduped[l])
    /\ \A m, n \in 1..Len(x_raw) :
         (SameDedupKey(x_raw[m], x_raw[n]) /\ x_raw[m].date.y # x_raw[n].date.y) =>
            /\ YearDistance(x_raw[m]) < YearDistance(x_raw[n]) => x_raw[n] \notin Range(x_deduped)
            /\ (/\ YearDistance(x_raw[m]) = YearDistance(x_raw[n])
                /\ Len(x_raw[m].description) > Len(x_raw[n].description))
               => x_raw[n] \notin Range(x_deduped)

\* (2022-03-10, 88.50) then (2024-03-10, 88.50) on a 2024 run: the 2024
\* record is the one left.
C9_ExampleCollapsed ==
    /\ x_pc = "done"
    /\ current_year = 2024
    /\ DatesAmounts(x_raw) = <<<<Date(2022, 3, 10), 8850>>, <<Date(2024, 3, 10), 8850>>>>
    /\ DatesAmounts(x_deduped) = <<<<Date(2024, 3, 10), 8850>>>>

\* C10: no record whose amount lies outside [MIN_UTILITY_AMOUNT,
\* MAX_UTILITY_AMOUNT] appears in the records of a result, whichever
\* extraction path produced it.
C10_AmountsWithinBand ==
    x_pc = "done" =>
        \A k \in 1..Len(x_ret.all_bills) : AmountInRange(x_ret.all_bills[k].amount)

\* C12: the strategies run in the order API, HTML, Vision (the oracle-guided
\* HTML result only when the markup rows gave nothing); the value returned
\* is the result of the first strategy whose result is meaningful, no
\* strategy ran after that one, Vision ran only on a billing page, and when
\* no result is meaningful the value is the 'All extractions failed'
\* sentinel.
C12_FirstMeaningfulStrategyReturned ==
    /\ html_result # None => api_result # None
    /\ vision_result # None => html_result # None /\ is_billing_page
    /\ x_path = "ai_html" => x_raw = <<>>
    /\ x_pc = "done" =>
         /\ api_result # None
         /\ has_meaningful_billing_data(api_result) =>
                x_ret = api_result /\ html_result = None /\ vision_result = None
         /\ ~has_meaningful_billing_data(api_result) =>
                /\ html_result # None
                /\ has_meaningful_billing_data(html_result) =>
                       x_ret = html_result /\ vision_result = None
                /\ ~has_meaningful_billing_data(html_result) =>
                       IF has_meaningful_billing_data(vision_result)
                       THEN x_ret = vision_result
                       ELSE x_ret = BillInfo("All extractions failed", 0,
                                             "No viable extraction method", 0)

\* A call on a billing page ended with the sentinel after all three
\* strategies ran and none gave a meaningful result.
C12_AllThreeFailedSentinel ==
    /\ x_pc = "done"
    /\ api_result # None /\ html_result # None /\ vision_result # None
    /\ ~has_meaningful_billing_data(vision_result)
    /\ x_ret.previous_month = "All extractions failed"

\* The bill-kind records of a result, in the order of its records.
BillKind(records) == Pick(records, {k \in 1..Len(records) : records[k].type = "bill"})

\* C13: in a returned result that has records, the headline current amount
\* is the amount of the first bill-kind record and the headline previous
\* amount that of the second bill-kind record (nothing where there is none);
\* a payment-kind record is never a headline figure.
C13_HeadlinesFromBillRecords ==
    (x_pc = "done" /\ x_ret.all_bills # <<>>) =>
        LET bills == BillKind(x_ret.all_bills)
        IN  /\ x_ret.current_amount = IF Len(bills) > 0 THEN bills[1].amount ELSE 0
            /\ x_ret.previous_amount = IF Len(bills) > 1 THEN bills[2].amount ELSE 0

\* C14: the candidates Navigation Discovery hands to the ranking, the
\* links found on the page and the common-pattern candidates alike, hold no
\* URL of the visited set.
C14_DiscoveryNeverReturnsVisited ==
    pc = "rank" =>
        \A k \in 1..Len(billing_links) : billing_links[k].url \notin visited_urls

(***************************************************************************)
(* Properties of the bill-fetch jobs, under SpecJobs.                      *)
(***************************************************************************)
\* C15: jobs that run side by side share no mutable state: the screenshot a
\* job hands to the vision model is the file it wrote itself (not removed,
\* not overwritten by another job), and the selectors a job found or used
\* stay in the selector cache file whatever the other jobs write.
C15_JobsShareNoMutableState ==
    \A id \in DOMAIN job :
        /\ job[id].vision_input \in {"none", "own"}
        /\ (job[id].pc \in {"extract", "vision"}) => job[id].host \in cache_file

(***************************************************************************)
(* Further properties of the exploration engine, under Spec.               *)
(***************************************************************************)
\* C16: a page is asked for (a main candidate or a sub-link) only in a step
\* whose time check read a time within the budget, and never after a read
\* of the clock over the budget, whatever candidates remain.
C16_NoNavigationPastBudget ==
    [][nav_calls' # nav_calls => (elapsed <= time_limit /\ elapsed' <= time_limit)]_vars

\* The link loop was left on the time check with candidates remaining,
\* after a page had been asked for.
C16_BudgetEndedLoopWithCandidatesLeft ==
    /\ pc = "done"
    /\ outcome = "returned"
    /\ time_limit = 180
    /\ elapsed > 180
    /\ nav_calls >= 1
    /\ i <= Len(ranked_links)

\* C17: no oracle call starts once the clock was read past the deadline:
\* the sufficiency evaluation of the entry page, the ranking of the links
\* and the evaluation of a loaded page all start with the budget not
\* exceeded.
C17_NoOracleCallPastDeadline ==
    [][/\ (pc \in {"eval_main", "rank"} /\ pc' # pc) => elapsed <= time_limit
       /\ (pc = "loop" /\ visited_urls' # visited_urls) => elapsed' <= time_limit]_vars

\* C18: a run that stops at the entry page on a sufficiency verdict (the
\* page score or the oracle's answer), before any discovery, returns a
\* meaningful value.
C18_EntryStopReturnsMeaningful ==
    (outcome = "returned" /\ discover_calls = 0 /\ ~page.setup) =>
        has_meaningful_billing_data(ret)

\* The URLs of the candidates Navigation Discovery produced in this run.
DiscoveredUrls == {billing_links[k].url : k \in 1..Len(billing_links)}

\* C19: every URL a page is asked for, a main candidate or a sub-link, is
\* the URL of a candidate of Navigation Discovery; a URL the oracle alone
\* has named is never asked for.
C19_NavigationOnlyToDiscovered ==
    [][nav_calls' # nav_calls =>
         (IF pc = "loop" THEN ranked_links[i].url ELSE sorted_links[j].url)
             \in DiscoveredUrls]_vars

\* C20: no step takes a URL out of the visited set; the first step puts the
\* entry URL in it; no page is asked for, main candidate or sub-link, whose
\* URL is in the visited set at that moment.
C20_VisitedGrowsAndBlocksRevisit ==
    [][/\ visited_urls \subseteq visited_urls'
       /\ pc = "start" => current_url \in visited_urls'
       /\ nav_calls' # nav_calls =>
            (IF pc = "loop" THEN ranked_links[i].url ELSE sorted_links[j].url)
                \notin visited_urls]_vars

\* A ranked candidate that was in the visited set has been passed over
\* without any page asked for.
C20_VisitedCandidateSkipped ==
    /\ pc = "loop"
    /\ i > 1
    /\ nav_calls = 0
    /\ ranked_links[i - 1].shape = "ok"
    /\ ranked_links[i - 1].url \in visited_urls

\* C21: after every step that asks for a page, the get having raised or
\* not, the URL asked for is in the visited set.
C21_FailedNavigationMarkedVisited ==
    [][nav_calls' # nav_calls =>
         (IF pc = "loop" THEN ranked_links[i].url ELSE sorted_links[j].url)
             \in visited_urls']_vars

\* C22: Navigation Discovery leaves the browser where it was: the URL and
\* the page after the discovery step are the ones before it.
C22_DiscoveryLeavesBrowserUnchanged ==
    [][pc = "discover" => (current_url' = current_url /\ page' = page)]_vars

(***************************************************************************)
(* Properties of _rank_billing_links, under SpecRank.                      *)
(***************************************************************************)
\* The heuristic score of the candidate with this URL.
HeuristicScore(url) ==
    LET k == CHOOSE l \in 1..Len(rk_billing_links) : rk_billing_links[l].url = url
    IN  rk_billing_links[k].score

\* C23: on an oracle answer that is malformed or empty, the list returned
\* holds candidates only, in descending order of their heuristic score.
C23_FallbackInHeuristicOrder ==
    (rk_pc = "done" /\ (RankingRaises(rk_response) \/ rk_response.ranked_links = <<>>)) =>
        /\ \A k \in 1..Len(rk_ret) :
              \E l \in 1..Len(rk_billing_links) : rk_billing_links[l].url = rk_ret[k].url
        /\ \A k \in 1..(Len(rk_ret) - 1) :
              HeuristicScore(rk_ret[k].url) >= HeuristicScore(rk_ret[k + 1].url)

(***************************************************************************)
(* Termination of the exploration engine, under SpecLive.                  *)
(***************************************************************************)
\* C24: every run reaches the end with a value returned, and at no moment
\* were more pages asked for than four times the number of ranked
\* candidates.
C24_EveryRunReachesStop ==
    /\ <>(pc = "done" /\ outcome = "returned")
    /\ [](nav_calls <= 4 * Len(ranked_links))

(***************************************************************************)
(* Properties of _score_billing_page_quality, under SpecScore.             *)
(***************************************************************************)
\* The pair-count bonus, the table bonus and the recency bonus as the
\* specification words them.
C25_P(n) == IF n = 0 THEN 0 ELSE IF n = 1 THEN 25 ELSE IF n = 2 THEN 35
            ELSE 50 + Min2((n - 3) * 10, 20)

C25_S(g) == IF g.table_rows THEN 10 ELSE 0

C25_R(g) == Min2(5 * g.recent_dates, 15)

\* C25 as stated: the score is min(100, K + P + S + R) and nothing else, K
\* being 30 when at least 3 keywords appear and 0 otherwise.
C25_ScoreIsKPSR ==
    sc_pc = "done" =>
        sc_ret = Min2(100, (IF sc_page.keywords >= 3 THEN 30 ELSE 0)
                           + C25_P(sc_page.pairs) + C25_S(sc_page) + C25_R(sc_page))

\* C25 amended: the score is min(100, K + P + D + S + R), K being 30 for
\* at least 3 keywords and 20 for 1 or 2, and D a bonus of 20 for a page
\* with at least 2 pairs that are current-bill amounts.
C25_ScoreIsKPDSR ==
    sc_pc = "done" =>
        sc_ret = Min2(100, (IF sc_page.keywords >= 3 THEN 30
                            ELSE IF sc_page.keywords >= 1 THEN 20 ELSE 0)
                           + C25_P(sc_page.pairs)
                           + (IF sc_page.current_bills >= 2 THEN 20 ELSE 0)
                           + C25_S(sc_page) + C25_R(sc_page))

\* A scored page with one or two keywords and two current-bill amounts,
\* below the cap.
C25_FewKeywordsDashboardScored ==
    /\ sc_pc = "done"
    /\ sc_page.keywords \in 1..2
    /\ sc_page.current_bills >= 2
    /\ sc_ret < 100

\* C26: a score of 85 or more is returned only for a page with at least 3
\* unique date-amount pairs.
C26_HighScoreNeedsThreePairs ==
    (sc_pc = "done" /\ sc_ret >= 85) => sc_page.pairs >= 3

C29_DoneSeenWithProgressAndBill ==
    bj_seen.status = "done" => (bj_seen.progress = 100 /\ bj_seen.bill # "None")

(***************************************************************************)
(* Properties of deduplicate_transactions, under SpecDedup.                *)
(***************************************************************************)
\* C30: deduplicate_transactions returns the same set of records for every
\* ordering of the same input list.
C30_DedupIgnoresInputOrder ==
    dd_pc = "done" => Range(dd_ret) = Range(dd_ret_reordered)

====
